---- MODULE Spec2Model ----
(***************************************************************************)
(* Model of the findy-agent protocol state machine (PSM) core: the RPC     *)
(* surface (Start, Resume, Release), the protocol starters and handlers of *)
(* the issue-credential and present-proof families, the PSM engine they    *)
(* call, the service-agent callback (CallEA) and the question/answer bus.  *)
(***************************************************************************)
EXTENDS Integers, Sequences, FiniteSets, TLC

(***************************************************************************)
(* Bounds of the model.                                                    *)
(***************************************************************************)
\* number of persisted PSM entries the store may reach, over all keys
MaxEntries == 6
\* number of answers sent to the bus
MaxAnswers == 3
\* number of status events an instance posts while a Run call listens
MaxEvents == 4

\* concurrent tasks (goroutines serving RPC calls and inbound envelopes)
Procs == {1, 2}
\* ids of the questions posted to the bus
QIds == {"q-1", "q-2"}
\* protocol thread-ids
Nonces == {"n1", "n2"}
\* the thread-id of the protocol instance the tasks contend for
Contended == {"n1"}

(***************************************************************************)
(* PSM sub states: a bitfield, modelled as the set of the bits that are    *)
(* set.                                                                    *)
(***************************************************************************)
Sending == {"Sending"}
Waiting == {"Waiting"}
Ready == {"Ready"}
Failure == {"Failure"}
ACK == {"ACK"}
NACK == {"NACK"}
Archiving == {"Archiving"}
ReadyACK == Ready \cup ACK
ReadyNACK == Ready \cup NACK

\* SubState.Pure(): the sub state without its ACK/NACK decision bits
Pure(ss) == ss \ (ACK \cup NACK)

\* a terminal sub state: Pure() is Ready or Failure, Archiving may accompany
IsTerminal(ss) == Pure(ss) \in {Ready, Ready \cup Archiving, Failure, Failure \cup Archiving}

(***************************************************************************)
(* Keys, tasks, messages.                                                  *)
(***************************************************************************)
WorkerDID == "wDID"

\* psm.NewStateKey(receiver.WorkerEA(), id)
NewStateKey(did, nonce) == <<did, nonce>>

Keys == {NewStateKey(WorkerDID, n) : n \in Nonces}

\* the keys the operations of the PSM specification are called with
CallKeys == {NewStateKey(WorkerDID, n) : n \in Contended}

\* comm.Task: the task's id and type
Task(id, type) == [id |-> id, type |-> type]

\* the key of the instance a starter creates for task t
TaskKey(t) == NewStateKey(WorkerDID, t.id)

\* an inbound protocol message: its thread-id and its type
Packet(thid, type) == [thid |-> thid, type |-> type]

\* a lookup of the instance under one fixed nonce, whatever the thread-id is
PacketKey_FixedNonce(packet) == NewStateKey(WorkerDID, "n1")

\* the key of the instance an inbound message belongs to
PacketKey(packet) == NewStateKey(WorkerDID, packet.thid)

\* handleProtocol: the task built from the packet's thread-id and type
PacketTask(packet) == Task(packet.thid, packet.type)

Terminate == "Terminate"
NoTask == [id |-> "", type |-> ""]
NoRep == [family |-> "none"]
NoProc == 0

\* the task types the two protocol families register a starter for
IssueTaskTypes == {"CACredOffer", "CACredRequest"}
ProofTaskTypes == {"CAProofPropose", "CAProofRequest"}
TaskTypes == IssueTaskTypes \cup ProofTaskTypes

\* the protocol messages the two families register a handler for
IssueMsgTypes == {"IssueCredentialPropose", "IssueCredentialOffer", "IssueCredentialRequest",
                  "IssueCredentialIssue", "IssueCredentialACK", "IssueCredentialNACK"}
ProofMsgTypes == {"PresentProofPropose", "PresentProofRequest", "PresentProofPresentation",
                  "PresentProofACK", "PresentProofNACK"}
MsgTypes == IssueMsgTypes \cup ProofMsgTypes

\* the inbound messages: every type on the contended threads, the closing
\* messages of present-proof on the others
Packets ==
    {Packet(n, mt) : n \in Contended, mt \in MsgTypes}
       \cup {Packet(n, mt) : n \in Nonces \ Contended, mt \in {"PresentProofACK"}}

VARIABLES
    psm,      \* PSM store: key -> sequence of persisted state entries
    reps,     \* protocol representations: key -> representation or NoRep
    lock,     \* per-key exclusion of the engine: key -> holder or NoProc
    pc,       \* position of each task
    call,     \* the operation each task executes and its inputs
    log,      \* per key, the history of persists, pipe sends and bus events
    out       \* the last result an operation returned, and what its caller received

VARIABLES
    agent,    \* the CA's service-agent configuration and that of its worker EA
    sacall    \* the last CallEA: its inputs and what it returned

VARIABLES
    station,  \* answerers of the bus: agent key -> registered, its question channel and
              \* the questions posted to it since it registered
    waiting,  \* the questions that wait for their answer: <<id, answer channel>> in post order
    answerCh, \* the answer channels AgentSendQuestion returned, by number
    asked,    \* the questions posted; the n-th one got answer channel n
    heard,    \* per agent key, the questions its answerer has received
    told,     \* per question id, the number of answers sent
    accepted, \* per answer channel, the answers the bus took for it, as they were sent
    got       \* per answer channel, the answers its waiter has received

psmVars == <<psm, reps, lock, pc, call, log, out>>

saVars == <<agent, sacall>>

busVars == <<station, waiting, answerCh, asked, heard, told, accepted, got>>

\* one Run call of the protocol service: its position, its task's id, whether
\* its listeners are registered, the two listener channels, the Send calls on
\* its stream, its return value; history: the events it took from the channels,
\* the Waiting events its user-action listener accepted, the events posted, and
\* whether the instance has posted its last event
VARIABLES runpc, runtask, listening, statusChan, userActionChan, stream, runerr,
          taken, offered, events, ended, started

runVars == <<runpc, runtask, listening, statusChan, userActionChan, stream, runerr,
             taken, offered, events, ended, started>>

\* the pairwise maps of one agent: the pipes by DID and by name, the holder of
\* its pairwise lock, and each task's position in the call it makes
VARIABLES pws, pwNames, pwLock, pwpc, pwcall

pwVars == <<pws, pwNames, pwLock, pwpc, pwcall>>

\* the worker EA of one CA: the CA's worker field, the worker agents created,
\* the Add calls on the active receivers, the workers whose pairwise maps were
\* loaded, each task's position in its WEA call, and what WEA returned
VARIABLES worker, created, rcvrs, loaded, weapc, returned

weaVars == <<worker, created, rcvrs, loaded, weapc, returned>>

\* the protocol registry: its entries, the position of each family's init, the
\* last registration or lookup, and whether initialization is over
VARIABLES registry, regpc, regcall, sealed

regVars == <<registry, regpc, regcall, sealed>>

\* the tasks the server builds for Start: the number of ids generated, the ids
\* given to tasks so far, and the last call of taskFrom
VARIABLES uuids, nonces, made

tfVars == <<uuids, nonces, made>>

agencyVars == <<pwVars, weaVars, regVars, tfVars>>

vars == <<psm, reps, lock, pc, call, log, out, agent, sacall,
          station, waiting, answerCh, asked, heard, told, accepted, got,
          runpc, runtask, listening, statusChan, userActionChan, stream, runerr,
          taken, offered, events, ended, started, pwVars, weaVars, regVars, tfVars>>

(***************************************************************************)
(* State entries and history events.                                       *)
(***************************************************************************)
\* psm.State: one entry of a PSM record
State(sub, role, task, tag, pending) ==
    [sub |-> sub, role |-> role, task |-> task, tag |-> tag, pending |-> pending]

LastState(rec) == rec[Len(rec)]

Event(ev, op, what) == [ev |-> ev, op |-> op, what |-> what]

\* the event of a message of type what that operation op hands to the pipe with
\* thread-id thid
Sent(ev, op, what, thid) == [ev |-> ev, op |-> op, what |-> what, thid |-> thid]

NoCall == [op |-> "none", key |-> <<"", "">>, typ |-> "", sendNext |-> "", waitingNext |-> "",
           ack |-> FALSE, id |-> 0, thid |-> "", state |-> ""]

\* identity of the operation that begins on key k: the position of its first event
OpId(k) == Len(log[k]) + 1

\* the family-specific part of a protocol status that no provider filled
NoDetail == [kind |-> "none"]

Result(op, k, err, rpc) == [op |-> op, key |-> k, err |-> err, rpc |-> rpc, detail |-> NoDetail]

NoResult == Result("none", <<"", "">>, "nil", "none")

(***************************************************************************)
(* Protocol representations (psm.PresentProofRep, data.IssueCredRep).      *)
(***************************************************************************)
\* the payload of the issuing task started on a nonce: its cred-def-id and the
\* names of its credential attributes
CredTask(id) == IF id = "n1" THEN [CredDefID |-> "cd:1", CredentialAttrs |-> <<"email">>]
                ELSE [CredDefID |-> "cd:2", CredentialAttrs |-> <<"email", "name">>]

IssueCredRep(key, tt, offer) ==
    [family |-> "issue-credential", key |-> key, type |-> tt, credOffer |-> offer, weProposed |-> FALSE,
     CredDefID |-> CredTask(key[2]).CredDefID, Attributes |-> CredTask(key[2]).CredentialAttrs]

PresentProofRep(key, tt, proposed, req) ==
    [family |-> "present-proof", key |-> key, type |-> tt, credOffer |-> req, weProposed |-> proposed]

\* the results of the external calls a Setup makes: the wallet's credential
\* offer, json.Marshal, and the write of the representation
SetupEnv(wallet, marshal, store) == [wallet |-> wallet, marshal |-> marshal, store |-> store]

SetupEnvs == {SetupEnv(TRUE, TRUE, TRUE), SetupEnv(FALSE, TRUE, TRUE),
              SetupEnv(TRUE, FALSE, TRUE), SetupEnv(TRUE, TRUE, FALSE)}

SetupResult(err, rs) == [err |-> err, reps |-> rs]

\* a Setup that stores the representation before it asks the wallet for the offer
SetupCredOffer_RepFirst(key, env, rs) ==
    IF ~env.store THEN SetupResult(TRUE, rs)
    ELSE IF ~env.wallet \/ ~env.marshal
         THEN SetupResult(TRUE, [rs EXCEPT ![key] = IssueCredRep(key, "CACredOffer", FALSE)])
    ELSE SetupResult(FALSE, [rs EXCEPT ![key] = IssueCredRep(key, "CACredOffer", TRUE)])

\* Setup of the CACredOffer starter
SetupCredOffer(key, env, rs) ==
    IF ~env.wallet THEN SetupResult(TRUE, rs)
    ELSE IF ~env.marshal THEN SetupResult(TRUE, rs)
    ELSE IF ~env.store THEN SetupResult(TRUE, rs)
    ELSE SetupResult(FALSE, [rs EXCEPT ![key] = IssueCredRep(key, "CACredOffer", TRUE)])

\* Setup of the CACredRequest starter
SetupCredRequest(key, env, rs) ==
    IF ~env.marshal THEN SetupResult(TRUE, rs)
    ELSE IF ~env.store THEN SetupResult(TRUE, rs)
    ELSE SetupResult(FALSE, [rs EXCEPT ![key] = IssueCredRep(key, "CACredRequest", FALSE)])

\* Setup of the CAProofPropose starter
SetupProofPropose(key, env, rs) ==
    IF ~env.store THEN SetupResult(TRUE, rs)
    ELSE SetupResult(FALSE, [rs EXCEPT ![key] = PresentProofRep(key, "CAProofPropose", TRUE, FALSE)])

\* Setup of the CAProofRequest starter
SetupProofRequest(key, env, rs) ==
    IF ~env.store THEN SetupResult(TRUE, rs)
    ELSE SetupResult(FALSE, [rs EXCEPT ![key] = PresentProofRep(key, "CAProofRequest", FALSE, TRUE)])

(***************************************************************************)
(* Starters: the prot.Initial each hands to StartPSM.                      *)
(***************************************************************************)
Initial(sendNext, waitingNext, setup) ==
    [SendNext |-> sendNext, WaitingNext |-> waitingNext, Setup |-> setup]

\* a starter that starts nothing (unsupported task type)
NoInitial == Initial("", "", "")

startIssueCredentialByPropose(tt) ==
    CASE tt = "CACredOffer" ->
           Initial("IssueCredentialOffer", "IssueCredentialRequest", "SetupCredOffer")
      [] tt = "CACredRequest" ->
           Initial("IssueCredentialPropose", "IssueCredentialOffer", "SetupCredRequest")
      [] OTHER -> NoInitial

\* a proof starter whose verifier branch waits for the message it sends
startProofProtocol_WaitsForOwn(tt) ==
    CASE tt = "CAProofPropose" ->
           Initial("PresentProofPropose", "PresentProofRequest", "SetupProofPropose")
      [] tt = "CAProofRequest" ->
           Initial("PresentProofRequest", "PresentProofRequest", "SetupProofRequest")
      [] OTHER -> NoInitial

startProofProtocol(tt) ==
    CASE tt = "CAProofPropose" ->
           Initial("PresentProofPropose", "PresentProofRequest", "SetupProofPropose")
      [] tt = "CAProofRequest" ->
           Initial("PresentProofRequest", "PresentProofPresentation", "SetupProofRequest")
      [] OTHER -> NoInitial

\* prot.FindAndStartTask: the starter registered for the task type
FindAndStartTask(tt) ==
    IF tt \in ProofTaskTypes THEN startProofProtocol(tt)
    ELSE startIssueCredentialByPropose(tt)

\* the call of Initial.Setup(key, msg)
RunSetup(setup, key, env, rs) ==
    CASE setup = "SetupCredOffer" -> SetupCredOffer(key, env, rs)
      [] setup = "SetupCredRequest" -> SetupCredRequest(key, env, rs)
      [] setup = "SetupProofPropose" -> SetupProofPropose(key, env, rs)
      [] OTHER -> SetupProofRequest(key, env, rs)

(***************************************************************************)
(* What the RPC caller receives.                                           *)
(***************************************************************************)
\* a Start that hands the starter's error to its caller
StartReply_Propagate(err) == IF err = "nil" THEN "ok" ELSE err

\* didCommServer.Start returns the protocol id and a nil error: the starter
\* catches and logs the error of StartPSM
StartReply(err) == "ok"

\* didCommServer.Release returns the error of AddAndSetFlagUpdatePSM
ReleaseReply(err) == IF err = "nil" THEN "ok" ELSE err

(***************************************************************************)
(* The engine's bookkeeping.                                               *)
(***************************************************************************)
\* a new request is served by the first idle task (tasks are interchangeable)
Idle(p) == pc[p] = "idle" /\ \A q \in Procs : q < p => pc[q] # "idle"

\* task p leaves operation op on key k with result err; reply is what its
\* caller receives
Return(p, op, k, err, reply) ==
    /\ pc' = [pc EXCEPT ![p] = "idle"]
    /\ call' = [call EXCEPT ![p] = NoCall]
    /\ out' = Result(op, k, err, reply)

\* an operation op that begins on key k
Begin(op, k, typ, sendNext, waitingNext, ack) ==
    [NoCall EXCEPT !.op = op, !.key = k, !.typ = typ, !.sendNext = sendNext,
                   !.waitingNext = waitingNext, !.ack = ack, !.id = OpId(k)]

\* an UpdatePSM that posts the sub state before the entry is in the record
UpdatePSM_PostsFirst(k, e, op) ==
    /\ psm' = [psm EXCEPT ![k] = Append(@, e)]
    /\ log' = [log EXCEPT ![k] = @ \o <<Event("bus", op, e.sub), Event("persist", op, e.sub)>>]

\* UpdatePSM: append entry e to the record of key k and post its sub state
UpdatePSM(k, e, op) ==
    /\ psm' = [psm EXCEPT ![k] = Append(@, e)]
    /\ log' = [log EXCEPT ![k] = @ \o <<Event("persist", op, e.sub), Event("bus", op, e.sub)>>]

RECURSIVE Entries(_)
\* the number of entries persisted for the keys of ks
Entries(ks) ==
    IF ks = {} THEN 0
    ELSE LET k == CHOOSE x \in ks : TRUE IN Len(psm[k]) + Entries(ks \ {k})

\* an operation that writes n entries may begin
Room(n) == Entries(Keys) + n <= MaxEntries

(***************************************************************************)
(* StartPSM (steps 1-5): take the key's exclusion, refuse a duplicate, run *)
(* Setup, persist the Sending entry.                                       *)
(***************************************************************************)
\* a StartPSM that does not look for an existing record
StartPSM_NoDuplicateCheck(p, k, t, ini, env) ==
    /\ lock[k] = NoProc
    /\ Room(2)
    /\ LET r == RunSetup(ini.Setup, k, env, reps) IN
       /\ ~r.err
       /\ reps' = r.reps
       /\ UpdatePSM(k, State(Sending, "Initiator", t,
                             ini.SendNext, FALSE), OpId(k))
       /\ lock' = [lock EXCEPT ![k] = p]
       /\ pc' = [pc EXCEPT ![p] = "start_send"]
       /\ call' = [call EXCEPT ![p] = [Begin("start", k, t.type, ini.SendNext, ini.WaitingNext, FALSE)
                                             EXCEPT !.thid = t.id]]
       /\ out' = out

StartPSM(p, k, t, ini, env) ==
    /\ lock[k] = NoProc
    /\ IF psm[k] # <<>>
       THEN /\ Return(p, "start", k, "DuplicateProtocol", StartReply("DuplicateProtocol"))
            /\ UNCHANGED <<psm, reps, lock, log>>
       ELSE LET r == RunSetup(ini.Setup, k, env, reps) IN
            IF r.err
            THEN /\ reps' = r.reps
                 /\ Return(p, "start", k, "SetupError", StartReply("SetupError"))
                 /\ UNCHANGED <<psm, lock, log>>
            ELSE /\ reps' = r.reps
                 /\ UpdatePSM(k, State(Sending, "Initiator", t,
                                       ini.SendNext, FALSE), OpId(k))
                 /\ lock' = [lock EXCEPT ![k] = p]
                 /\ pc' = [pc EXCEPT ![p] = "start_send"]
                 /\ call' = [call EXCEPT ![p] = [Begin("start", k, t.type, ini.SendNext, ini.WaitingNext, FALSE)
                                             EXCEPT !.thid = t.id]]
                 /\ out' = out

\* StartPSM (step 6): send the outbound message through the pairwise pipe; on
\* a send failure persist Failure and return the error
StartPSMSend(p, ok) ==
    LET c == call[p]
        k == c.key
        last == LastState(psm[k])
    IN  IF ok
        THEN /\ log' = [log EXCEPT ![k] = Append(@, Sent("send", c.id, c.sendNext, c.thid))]
             /\ pc' = [pc EXCEPT ![p] = "start_wait"]
             /\ UNCHANGED <<psm, reps, lock, call, out>>
        ELSE /\ psm' = [psm EXCEPT ![k] = Append(@, State(Failure, last.role, last.task,
                                                          c.sendNext, FALSE))]
             /\ log' = [log EXCEPT ![k] = @ \o <<Sent("senderr", c.id, c.sendNext, c.thid),
                                                  Event("persist", c.id, Failure),
                                                  Event("bus", c.id, Failure)>>]
             /\ lock' = [lock EXCEPT ![k] = NoProc]
             /\ Return(p, "start", k, "TransportFailure", StartReply("TransportFailure"))
             /\ UNCHANGED reps

\* StartPSM (step 7): persist the Waiting entry and return
StartPSMWait(p) ==
    LET c == call[p]
        k == c.key
        last == LastState(psm[k])
    IN  /\ UpdatePSM(k, State(Waiting, last.role, last.task, c.waitingNext, FALSE), c.id)
        /\ lock' = [lock EXCEPT ![k] = NoProc]
        /\ Return(p, "start", k, "nil", StartReply("nil"))
        /\ UNCHANGED reps

\* didCommServer.Start: build the task, find its starter and start it
Start(p, t) ==
    /\ Idle(p)
    /\ UNCHANGED <<saVars, busVars, runVars, agencyVars>>
    /\ \E env \in (IF psm[TaskKey(t)] = <<>> THEN SetupEnvs ELSE {SetupEnv(TRUE, TRUE, TRUE)}) :
          StartPSM(p, TaskKey(t), t, FindAndStartTask(t.type), env)

StartSend(p) ==
    /\ pc[p] = "start_send"
    /\ UNCHANGED <<saVars, busVars, runVars, agencyVars>>
    /\ \E ok \in BOOLEAN : StartPSMSend(p, ok)

StartWait(p) ==
    /\ pc[p] = "start_wait"
    /\ UNCHANGED <<saVars, busVars, runVars, agencyVars>>
    /\ StartPSMWait(p)

(***************************************************************************)
(* Release: overlay the Archiving bit on the key's current state.          *)
(***************************************************************************)
\* prot.AddAndSetFlagUpdatePSM(key, set, clear): add an entry that repeats the
\* last one with the bits of set set and the bits of clear cleared
AddAndSetFlagUpdatePSM(p, k, set, clear) ==
    /\ lock[k] = NoProc
    /\ IF psm[k] = <<>>
       THEN /\ Return(p, "release", k, "NoRecord", ReleaseReply("NoRecord"))
            /\ UNCHANGED <<psm, reps, lock, log>>
       ELSE LET last == LastState(psm[k]) IN
            /\ Room(1)
            /\ UpdatePSM(k, [last EXCEPT !.sub = (@ \ clear) \cup set], OpId(k))
            /\ Return(p, "release", k, "nil", ReleaseReply("nil"))
            /\ UNCHANGED <<reps, lock>>

\* a Release that sets the flag in the last entry where it stands
Release_InPlace(p, k) ==
    /\ Idle(p)
    /\ UNCHANGED <<saVars, busVars, runVars, agencyVars>>
    /\ lock[k] = NoProc
    /\ IF psm[k] = <<>>
       THEN /\ Return(p, "release", k, "NoRecord", ReleaseReply("NoRecord"))
            /\ UNCHANGED <<psm, reps, lock, log>>
       ELSE /\ psm' = [psm EXCEPT ![k][Len(psm[k])].sub = @ \cup Archiving]
            /\ log' = [log EXCEPT ![k] = @ \o <<Event("persist", OpId(k), Archiving),
                                                 Event("bus", OpId(k), Archiving)>>]
            /\ Return(p, "release", k, "nil", ReleaseReply("nil"))
            /\ UNCHANGED <<reps, lock>>

\* a Release that passes Archiving as the bits to clear
Release_ClearsFlag(p, k) ==
    /\ Idle(p)
    /\ UNCHANGED <<saVars, busVars, runVars, agencyVars>>
    /\ AddAndSetFlagUpdatePSM(p, k, {}, Archiving)

\* a Release that marks the instance rejected as it archives it
Release_SetsNACK(p, k) ==
    /\ Idle(p)
    /\ UNCHANGED <<saVars, busVars, runVars, agencyVars>>
    /\ AddAndSetFlagUpdatePSM(p, k, Archiving \cup NACK, ACK)

\* a Release that writes the store without the engine's exclusion
Release_NoExclusion(p, k) ==
    /\ Idle(p)
    /\ UNCHANGED <<saVars, busVars, runVars, agencyVars>>
    /\ psm[k] # <<>>
    /\ Room(1)
    /\ UpdatePSM(k, [LastState(psm[k]) EXCEPT !.sub = @ \cup Archiving], OpId(k))
    /\ Return(p, "release", k, "nil", ReleaseReply("nil"))
    /\ UNCHANGED <<reps, lock>>

\* didCommServer.Release
Release(p, k) ==
    /\ Idle(p)
    /\ UNCHANGED <<saVars, busVars, runVars, agencyVars>>
    /\ AddAndSetFlagUpdatePSM(p, k, Archiving, {})

(***************************************************************************)
(* Status: the protocol state the server reports for a key.                *)
(***************************************************************************)
\* psm.PSM.PendingUserAction: the last entry waits for the user's decision
PendingUserAction(m) == LastState(m).pending

\* a calcProtocolState that does not expect the Archiving bit
calcProtocolState_NoArchiving(m) ==
    IF m # <<>>
    THEN IF PendingUserAction(m) THEN "WAIT_ACTION"
         ELSE LET last == LastState(m) IN
              CASE Pure(last.sub) \in {Ready} ->
                      IF last.sub \cap ACK # {} THEN "OK" ELSE "NACK"
                [] Pure(last.sub) \in {Failure} -> "ERR"
                [] OTHER -> "RUNNING"
    ELSE "RUNNING"

\* calcProtocolState: m is the record of the key, empty when there is none
calcProtocolState(m) ==
    IF m # <<>>
    THEN IF PendingUserAction(m) THEN "WAIT_ACTION"
         ELSE LET last == LastState(m) IN
              CASE Pure(last.sub) \in {Ready, Ready \cup Archiving} ->
                      IF last.sub \cap ACK # {} THEN "OK" ELSE "NACK"
                [] Pure(last.sub) \in {Failure, Failure \cup Archiving} -> "ERR"
                [] OTHER -> "RUNNING"
    ELSE "RUNNING"

\* tryProtocolStatus: the state of the status the server builds for the key
tryProtocolStatus(key) == calcProtocolState(psm[key])

\* the schema id read from a stored credential offer
SchemaOf(rep) == "schema:" \o rep.CredDefID

\* a status filler that reports the schema id in the place of the cred-def-id
fillIssueCredentialStatus_SchemaAsCredDef(rep) ==
    IF rep.family # "issue-credential" THEN NoDetail
    ELSE IF ~rep.credOffer THEN NoDetail
    ELSE [kind |-> "issue-credential", CredDefID |-> SchemaOf(rep), SchemaID |-> SchemaOf(rep),
          Attributes |-> rep.Attributes]

\* fillIssueCredentialStatus: the representation is read and the schema id is
\* taken from its credential offer; without a representation or without an
\* offer in it the function panics, the panic is caught and nothing is filled
fillIssueCredentialStatus(rep) ==
    IF rep.family # "issue-credential" THEN NoDetail
    ELSE IF ~rep.credOffer THEN NoDetail
    ELSE [kind |-> "issue-credential", CredDefID |-> rep.CredDefID, SchemaID |-> SchemaOf(rep),
          Attributes |-> rep.Attributes]

\* getPresentProofStatus: the attributes of the proof representation, if there is one
getPresentProofStatus(rep) ==
    IF rep.family = "present-proof" THEN [kind |-> "present-proof", Attributes |-> <<>>]
    ELSE NoDetail

\* prot.FillStatus: the status provider of the instance's family fills the status
FillStatus(key) ==
    IF reps[key].family = "present-proof" THEN getPresentProofStatus(reps[key])
    ELSE fillIssueCredentialStatus(reps[key])

\* didCommServer.Status: a snapshot, it takes no part in the key's exclusion
Status(id) ==
    /\ out' = [Result("status", NewStateKey(WorkerDID, id), "nil",
                      tryProtocolStatus(NewStateKey(WorkerDID, id)))
                   EXCEPT !.detail = FillStatus(NewStateKey(WorkerDID, id))]
    /\ UNCHANGED <<psm, reps, lock, pc, call, log, saVars, busVars, runVars, agencyVars>>

(***************************************************************************)
(* Protocol handlers: the prot.Transition each hands to ExecPSM.  InOut is *)
(* the set of results (ack, err) the handler's business logic can give.    *)
(***************************************************************************)
Transition(sendNext, waitingNext, inOut, userAction) ==
    [SendNext |-> sendNext, WaitingNext |-> waitingNext, InOut |-> inOut, UserAction |-> userAction]

InOutResult(ack, err) == [ack |-> ack, err |-> err]

\* a handler that consults the service agent or the wallet: accept, reject, fail
AnyInOut == {InOutResult(TRUE, FALSE), InOutResult(FALSE, FALSE), InOutResult(FALSE, TRUE)}

\* a handler of the proof ACK whose InOut returns false
handleProofACK_Rejects == Transition(Terminate, Terminate, {InOutResult(FALSE, FALSE)}, FALSE)

handleProofACK == Transition(Terminate, Terminate, {InOutResult(TRUE, FALSE)}, FALSE)

handleProofNACK == Transition(Terminate, Terminate, {InOutResult(FALSE, FALSE)}, FALSE)

handleCredentialNACK == Transition(Terminate, Terminate, {InOutResult(FALSE, FALSE)}, FALSE)

\* verifier: a proposal is answered with a proof request
HandleProposePresentation ==
    Transition("PresentProofRequest", "PresentProofPresentation", AnyInOut, FALSE)

\* prover: a proof request is answered with a presentation, after the user's decision
HandleRequestPresentation ==
    Transition("PresentProofPresentation", "PresentProofACK", AnyInOut, TRUE)

\* verifier: a presentation is answered with ACK, which ends the protocol
HandlePresentation == Transition("PresentProofACK", Terminate, AnyInOut, FALSE)

\* issuer: a proposal is answered with an offer
HandleCredentialPropose ==
    Transition("IssueCredentialOffer", "IssueCredentialRequest", AnyInOut, FALSE)

\* holder: an offer is answered with a request, after the user's decision
HandleCredentialOffer ==
    Transition("IssueCredentialRequest", "IssueCredentialIssue", AnyInOut, TRUE)

\* issuer: a request is answered with the credential
HandleCredentialRequest ==
    Transition("IssueCredentialIssue", "IssueCredentialACK", AnyInOut, FALSE)

\* holder: the credential is answered with ACK, which ends the protocol
HandleCredentialIssue == Transition("IssueCredentialACK", Terminate, AnyInOut, FALSE)

\* issuer: the holder's ACK ends the protocol
HandleCredentialACK == Transition(Terminate, Terminate, {InOutResult(TRUE, FALSE)}, FALSE)

\* presentproof.handleProtocol: dispatch on the protocol message
handleProtocol(mt) ==
    CASE mt = "PresentProofPropose" -> HandleProposePresentation
      [] mt = "PresentProofRequest" -> HandleRequestPresentation
      [] mt = "PresentProofPresentation" -> HandlePresentation
      [] mt = "PresentProofACK" -> handleProofACK
      [] OTHER -> handleProofNACK

\* issueCredentialProcessor.Handlers
issueCredentialHandlers(mt) ==
    CASE mt = "IssueCredentialPropose" -> HandleCredentialPropose
      [] mt = "IssueCredentialOffer" -> HandleCredentialOffer
      [] mt = "IssueCredentialRequest" -> HandleCredentialRequest
      [] mt = "IssueCredentialIssue" -> HandleCredentialIssue
      [] mt = "IssueCredentialACK" -> HandleCredentialACK
      [] OTHER -> handleCredentialNACK

\* the registry's handler of a message type
Handler(mt) == IF mt \in ProofMsgTypes THEN handleProtocol(mt) ELSE issueCredentialHandlers(mt)

\* what the transport receives from a handler, and the caller of Resume
HandlerReply(err) == IF err = "nil" THEN "ok" ELSE err

\* didCommServer.Resume returns the protocol id and a nil error
ResumeReply(err) == "ok"

Reply(op, err) == IF op = "resume" THEN ResumeReply(err) ELSE HandlerReply(err)

(***************************************************************************)
(* ExecPSM.                                                                *)
(***************************************************************************)
\* the entry a transition ends with after its message went out
AfterSend(waitingNext, ack) ==
    IF waitingNext = Terminate THEN (IF ack THEN ReadyACK ELSE ReadyNACK) ELSE Waiting

\* an ExecPSM that takes a message for a closed protocol like any other
ExecPSM_NoClosedCheck(p, k, t, tr) ==
    /\ lock[k] = NoProc
    /\ LET rec == psm[k]
           ignored == rec # <<>> /\ Waiting \subseteq LastState(rec).sub /\ LastState(rec).tag # t.type
       IN  IF ignored
           THEN /\ Return(p, "exec", k, "Ignored", HandlerReply("Ignored"))
                /\ UNCHANGED <<psm, reps, lock, log>>
           ELSE /\ Room(2)
                /\ UpdatePSM(k, State(Sending,
                                      IF rec = <<>> THEN "Addressee" ELSE LastState(rec).role,
                                      IF rec = <<>> THEN t ELSE LastState(rec).task,
                                      t.type, FALSE), OpId(k))
                /\ lock' = [lock EXCEPT ![k] = p]
                /\ pc' = [pc EXCEPT ![p] = "exec_inout"]
                /\ call' = [call EXCEPT ![p] = [Begin("exec", k, t.type, tr.SendNext, tr.WaitingNext, FALSE)
                                            EXCEPT !.thid = t.id]]
                /\ UNCHANGED <<reps, out>>

\* an ExecPSM that applies a message the protocol does not wait for
ExecPSM_NoIgnore(p, k, t, tr) ==
    /\ lock[k] = NoProc
    /\ LET rec == psm[k]
           closed == rec # <<>> /\ IsTerminal(LastState(rec).sub)
       IN  IF closed
           THEN /\ Return(p, "exec", k, "ProtocolClosed", HandlerReply("ProtocolClosed"))
                /\ UNCHANGED <<psm, reps, lock, log>>
           ELSE /\ Room(2)
                /\ UpdatePSM(k, State(Sending,
                                      IF rec = <<>> THEN "Addressee" ELSE LastState(rec).role,
                                      IF rec = <<>> THEN t ELSE LastState(rec).task,
                                      t.type, FALSE), OpId(k))
                /\ lock' = [lock EXCEPT ![k] = p]
                /\ pc' = [pc EXCEPT ![p] = "exec_inout"]
                /\ call' = [call EXCEPT ![p] = [Begin("exec", k, t.type, tr.SendNext, tr.WaitingNext, FALSE)
                                            EXCEPT !.thid = t.id]]
                /\ UNCHANGED <<reps, out>>

\* ExecPSM (steps 1-2): take the key's exclusion, look up or create the PSM,
\* refuse a closed protocol, ignore an unexpected message, persist Sending
ExecPSM(p, k, t, tr) ==
    /\ lock[k] = NoProc
    /\ LET rec == psm[k]
           closed == rec # <<>> /\ IsTerminal(LastState(rec).sub)
           ignored == rec # <<>> /\ ~closed /\ Waiting \subseteq LastState(rec).sub
                                 /\ LastState(rec).tag # t.type
           err == IF closed THEN "ProtocolClosed" ELSE "Ignored"
           c == [Begin("exec", k, t.type, tr.SendNext, tr.WaitingNext, FALSE)
                                            EXCEPT !.thid = t.id]
       IN  IF closed \/ ignored
           THEN /\ Return(p, "exec", k, err, HandlerReply(err))
                /\ UNCHANGED <<psm, reps, lock, log>>
           ELSE /\ Room(2)
                /\ UpdatePSM(k, State(Sending,
                                      IF rec = <<>> THEN "Addressee" ELSE LastState(rec).role,
                                      IF rec = <<>> THEN t ELSE LastState(rec).task,
                                      t.type, FALSE), OpId(k))
                /\ lock' = [lock EXCEPT ![k] = p]
                /\ pc' = [pc EXCEPT ![p] = "exec_inout"]
                /\ call' = [call EXCEPT ![p] = c]
                /\ UNCHANGED <<reps, out>>

\* a handler of an offer that creates the representation it does not find
HandlerRep_Creates(c, rs) ==
    IF c.typ = "IssueCredentialOffer"
    THEN [rs EXCEPT ![c.key] = IF @ = NoRep THEN IssueCredRep(c.key, c.typ, TRUE)
                               ELSE [@ EXCEPT !.credOffer = TRUE]]
    ELSE rs

\* the holder's handler of an offer keeps the credential offer in the
\* representation its starter made for the key; a handler creates none
HandlerRep(c, rs) ==
    IF c.typ = "IssueCredentialOffer"
    THEN [rs EXCEPT ![c.key] = IF @ = NoRep THEN @ ELSE [@ EXCEPT !.credOffer = TRUE]]
    ELSE rs

\* an ExecPSM that returns the handler's error without an entry for it
ExecPSMInOut_NoFailureEntry(p, tr, r, auto) ==
    LET c == call[p]
        k == c.key
        last == LastState(psm[k])
    IN  IF tr.UserAction /\ ~auto
        THEN /\ UpdatePSM(k, State(Waiting, last.role, [last.task EXCEPT !.type = c.typ],
                                   "UserAction", TRUE), c.id)
             /\ lock' = [lock EXCEPT ![k] = NoProc]
             /\ Return(p, c.op, k, "nil", Reply(c.op, "nil"))
             /\ reps' = HandlerRep(c, reps)
        ELSE IF r.err
        THEN /\ lock' = [lock EXCEPT ![k] = NoProc]
             /\ Return(p, c.op, k, "HandlerError", Reply(c.op, "HandlerError"))
             /\ UNCHANGED <<psm, log, reps>>
        ELSE IF tr.SendNext = Terminate
        THEN /\ UpdatePSM(k, State(IF r.ack THEN ReadyACK ELSE ReadyNACK, last.role, last.task,
                                   Terminate, FALSE), c.id)
             /\ lock' = [lock EXCEPT ![k] = NoProc]
             /\ Return(p, c.op, k, "nil", Reply(c.op, "nil"))
             /\ UNCHANGED reps
        ELSE /\ pc' = [pc EXCEPT ![p] = "exec_send"]
             /\ call' = [call EXCEPT ![p].ack = r.ack]
             /\ reps' = HandlerRep(c, reps)
             /\ UNCHANGED <<psm, lock, log, out>>

\* ExecPSM (steps 3-5, 7): run InOut; a handler error ends in Failure, a
\* terminating transition in ReadyACK or ReadyNACK; a transition that needs the
\* user's decision waits with the pending-user-action flag
ExecPSMInOut(p, tr, r, auto) ==
    LET c == call[p]
        k == c.key
        last == LastState(psm[k])
    IN  IF tr.UserAction /\ ~auto
        THEN /\ UpdatePSM(k, State(Waiting, last.role, [last.task EXCEPT !.type = c.typ],
                                   "UserAction", TRUE), c.id)
             /\ lock' = [lock EXCEPT ![k] = NoProc]
             /\ Return(p, c.op, k, "nil", Reply(c.op, "nil"))
             /\ reps' = HandlerRep(c, reps)
        ELSE IF r.err
        THEN /\ UpdatePSM(k, State(Failure, last.role, last.task, c.typ, FALSE), c.id)
             /\ lock' = [lock EXCEPT ![k] = NoProc]
             /\ Return(p, c.op, k, "HandlerError", Reply(c.op, "HandlerError"))
             /\ UNCHANGED reps
        ELSE IF tr.SendNext = Terminate
        THEN /\ UpdatePSM(k, State(IF r.ack THEN ReadyACK ELSE ReadyNACK, last.role, last.task,
                                   Terminate, FALSE), c.id)
             /\ lock' = [lock EXCEPT ![k] = NoProc]
             /\ Return(p, c.op, k, "nil", Reply(c.op, "nil"))
             /\ UNCHANGED reps
        ELSE /\ pc' = [pc EXCEPT ![p] = "exec_send"]
             /\ call' = [call EXCEPT ![p].ack = r.ack]
             /\ reps' = HandlerRep(c, reps)
             /\ UNCHANGED <<psm, lock, log, out>>

\* ExecPSM (step 6): send the envelope and persist the state that follows it;
\* a send failure ends in Failure
ExecPSMSend(p, ok) ==
    LET c == call[p]
        k == c.key
        last == LastState(psm[k])
    IN  /\ IF ok
           THEN /\ psm' = [psm EXCEPT ![k] = Append(@, State(AfterSend(c.waitingNext, c.ack),
                                                   last.role, last.task, c.waitingNext, FALSE))]
                /\ log' = [log EXCEPT ![k] = @ \o
                              <<Sent("send", c.id, c.sendNext, c.thid),
                                Event("persist", c.id, AfterSend(c.waitingNext, c.ack)),
                                Event("bus", c.id, AfterSend(c.waitingNext, c.ack))>>]
                /\ Return(p, c.op, k, "nil", Reply(c.op, "nil"))
           ELSE /\ psm' = [psm EXCEPT ![k] = Append(@, State(Failure, last.role, last.task,
                                                             c.sendNext, FALSE))]
                /\ log' = [log EXCEPT ![k] = @ \o <<Sent("senderr", c.id, c.sendNext, c.thid),
                                                     Event("persist", c.id, Failure),
                                                     Event("bus", c.id, Failure)>>]
                /\ Return(p, c.op, k, "TransportFailure", Reply(c.op, "TransportFailure"))
        /\ lock' = [lock EXCEPT ![k] = NoProc]
        /\ UNCHANGED reps

\* an inbound protocol message: the family's handleProtocol builds the task from
\* the packet, the engine finds the instance by the packet's thread-id
Exec(p, packet) ==
    /\ Idle(p)
    /\ UNCHANGED <<saVars, busVars, runVars, agencyVars>>
    /\ ExecPSM(p, PacketKey(packet), PacketTask(packet), Handler(packet.type))

ExecInOut(p) ==
    /\ pc[p] = "exec_inout"
    /\ UNCHANGED <<saVars, busVars, runVars, agencyVars>>
    /\ \E r \in Handler(call[p].typ).InOut,
          auto \in (IF Handler(call[p].typ).UserAction THEN BOOLEAN ELSE {TRUE}) :
          ExecPSMInOut(p, Handler(call[p].typ), r, auto)

ExecSend(p) ==
    /\ pc[p] = "exec_send"
    /\ UNCHANGED <<saVars, busVars, runVars, agencyVars>>
    /\ \E ok \in BOOLEAN : ExecPSMSend(p, ok)

(***************************************************************************)
(* Resume: continue the transition that waits for the user's decision.     *)
(***************************************************************************)
\* prot.Resume and the family's continuator: the task of the last state names
\* the transition to continue, ack is the user's decision
ContinuePSM(p, k, ack, state) ==
    /\ lock[k] = NoProc
    /\ LET rec == psm[k]
           err == IF rec = <<>> THEN "NoRecord"
                  ELSE IF IsTerminal(LastState(rec).sub) THEN "ProtocolClosed"
                  ELSE IF ~LastState(rec).pending THEN "NotPending"
                  ELSE "nil"
       IN  IF err # "nil"
           THEN /\ Return(p, "resume", k, err, ResumeReply(err))
                /\ UNCHANGED <<psm, reps, lock, log>>
           ELSE LET last == LastState(rec)
                    tr == Handler(last.task.type)
                IN  /\ Room(2)
                    /\ UpdatePSM(k, State(Sending, last.role, last.task, last.task.type, FALSE),
                                 OpId(k))
                    /\ lock' = [lock EXCEPT ![k] = p]
                    /\ pc' = [pc EXCEPT ![p] = "exec_send"]
                    /\ call' = [call EXCEPT ![p] = [Begin("resume", k, last.task.type,
                                                          tr.SendNext, tr.WaitingNext, ack)
                                                       EXCEPT !.thid = k[2], !.state = state]]
                    /\ UNCHANGED <<reps, out>>

\* the states a ProtocolState can be resumed with
ResumeStates == {"ACK", "NACK", "OK"}

\* a decision that is ACK unless the state is NACK
ResumeDecision_UnlessNACK(state) == state # "NACK"

\* the decision didCommServer.Resume passes on: ACK exactly when the state is ACK
ResumeDecision(state) == state = "ACK"

\* didCommServer.Resume; the task keeps the state it was called with
Resume(p, id, state) ==
    /\ Idle(p)
    /\ UNCHANGED <<saVars, busVars, runVars, agencyVars>>
    /\ ContinuePSM(p, NewStateKey(WorkerDID, id), ResumeDecision(state), state)

(***************************************************************************)
(* The service-agent callback of a CA.                                     *)
(***************************************************************************)
PermissiveSA == "permissive_sa"
GRPCSA == "grpc"
ImplIDs == {"", PermissiveSA, GRPCSA}

NoEndp == "nil"
EAEndpoint == "http://ea"

\* the endpoint AttachSAImpl stores for a persistent implementation id
ImplEndp(implID) ==
    CASE implID = PermissiveSA -> "permissive_sa://localhost"
      [] implID = GRPCSA -> "grpc://localhost"
      [] OTHER -> "://localhost"

callTypeImplID == 1
callTypeEndp == 2
CallTypes == {0, callTypeImplID, callTypeEndp}

PlTypes == {"CANotifyStatus", "SAPing", "SAIssueCredentialAcceptPropose",
            "SAPresentProofAcceptPropose", "SAPresentProofAcceptValues"}

\* didcomm.Msg, as far as the callback reads and writes it
Msg(info, ready, sub) == [info |-> info, ready |-> ready, sub |-> sub]
Infos == {"hello", ""}
Msgs == {Msg(i, r, "") : i \in Infos, r \in BOOLEAN}
NilMsg == Msg("nil", FALSE, "nil")

\* what the service agent behind an implementation id or an endpoint does
SAOutcomes == {"ack", "nack", "error", "ConnectionError"}

CallResult(om, err) == [om |-> om, err |-> err]

\* a permissive SA that leaves the question about the proof's values unanswered
permissiveHandler_ValuesNotReady(plType, im) ==
    CASE plType = "SAPing" -> CallResult([im EXCEPT !.ready = TRUE, !.info = "SA ping OK"], "nil")
      [] plType = "SAIssueCredentialAcceptPropose" -> CallResult([im EXCEPT !.ready = TRUE], "nil")
      [] plType = "SAPresentProofAcceptPropose" ->
           CallResult([im EXCEPT !.ready = TRUE, !.sub = "FirstProofReq"], "nil")
      [] plType = "SAPresentProofAcceptValues" -> CallResult(im, "nil")
      [] OTHER -> CallResult(NilMsg, "nil")

\* a permissive SA that answers a ping with the info it was sent
permissiveHandler_EchoPing(plType, im) ==
    CASE plType = "SAPing" -> CallResult([im EXCEPT !.ready = TRUE], "nil")
      [] plType = "SAIssueCredentialAcceptPropose" -> CallResult([im EXCEPT !.ready = TRUE], "nil")
      [] plType = "SAPresentProofAcceptPropose" ->
           CallResult([im EXCEPT !.ready = TRUE, !.sub = "FirstProofReq"], "nil")
      [] plType = "SAPresentProofAcceptValues" -> CallResult([im EXCEPT !.ready = TRUE], "nil")
      [] OTHER -> CallResult(NilMsg, "nil")

\* the SA registered as "permissive_sa"
permissiveHandler(plType, im) ==
    CASE plType = "SAPing" -> CallResult([im EXCEPT !.ready = TRUE, !.info = "SA ping OK"], "nil")
      [] plType = "SAIssueCredentialAcceptPropose" -> CallResult([im EXCEPT !.ready = TRUE], "nil")
      [] plType = "SAPresentProofAcceptPropose" ->
           CallResult([im EXCEPT !.ready = TRUE, !.sub = "FirstProofReq"], "nil")
      [] plType = "SAPresentProofAcceptValues" -> CallResult([im EXCEPT !.ready = TRUE], "nil")
      [] OTHER -> CallResult(NilMsg, "nil")

\* the SA that asks the question over the bus and uses the answer's ready field
grpcHandler(plType, im, o) ==
    CASE o = "ack" -> CallResult([im EXCEPT !.ready = TRUE], "nil")
      [] o = "nack" -> CallResult([im EXCEPT !.ready = FALSE], "nil")
      [] OTHER -> CallResult(NilMsg, "sa error")

\* sa.Get(implID) applied to the call's arguments
SAGet(implID, plType, im, o) ==
    IF implID = PermissiveSA THEN permissiveHandler(plType, im)
    ELSE grpcHandler(plType, im, o)

\* a checkSAImpl that still knows the legacy endpoint and the unset agent
checkSAImpl_Legacy(a) ==
    IF a.SAImplID # "" THEN [ct |-> callTypeImplID, agent |-> a]
    ELSE IF a.EAEndp # NoEndp THEN [ct |-> callTypeEndp, agent |-> a]
    ELSE [ct |-> 0, agent |-> a]

\* Agent.checkSAImpl: the call type, and the agent with the default id set
checkSAImpl(a) ==
    IF a.SAImplID # "" THEN [ct |-> callTypeImplID, agent |-> a]
    ELSE [ct |-> callTypeImplID, agent |-> [a EXCEPT !.SAImplID = GRPCSA]]

\* Agent.callableEA: loads the endpoint from the DID's metadata when neither an
\* implementation id nor an endpoint is set
callableEA(a) ==
    checkSAImpl(IF a.SAImplID = "" /\ a.EAEndp = NoEndp /\ a.meta \notin {"pairwise", ""}
                THEN [a EXCEPT !.EAEndp = a.meta]
                ELSE a)

\* Agent.callEA: the call of the legacy endpoint
callEA(a, plType, msg, o) ==
    CASE o = "error" -> CallResult(NilMsg, "call endp")
      [] o = "ConnectionError" -> CallResult(NilMsg, "call ea api")
      [] o = "ack" -> CallResult([msg EXCEPT !.ready = TRUE], "nil")
      [] OTHER -> CallResult([msg EXCEPT !.ready = FALSE], "nil")

\* the switch of Agent.CallEA on the call type
Dispatch(ct, a, plType, im, o) ==
    CASE ct = callTypeEndp -> callEA(a, plType, im, o)
      [] ct = callTypeImplID -> SAGet(a.SAImplID, plType, im, o)
      [] OTHER -> CallResult([im EXCEPT !.ready = FALSE,
                                        !.info = "no SA endpoint or implementation ID set"], "nil")

\* an error handler of CallEA that logs the error and returns it
Handle_KeepsError(r, im) ==
    IF r.err # "nil" THEN CallResult([im EXCEPT !.ready = FALSE], r.err) ELSE r

\* the deferred error handler of Agent.CallEA: roll back to im, not ready, no error
Handle(r, im) ==
    IF r.err # "nil" THEN CallResult([im EXCEPT !.ready = FALSE], "nil") ELSE r

NoSACall == [plType |-> "", im |-> NilMsg, om |-> NilMsg, err |-> "nil", failed |-> FALSE,
             ct |-> 0, impl |-> "", o |-> ""]

\* Agent.CallEA
CallEA(plType, im, o) ==
    LET c == callableEA(agent)
        d == Dispatch(c.ct, c.agent, plType, im, o)
        r == Handle(d, im)
    IN  /\ agent' = c.agent
        /\ sacall' = [plType |-> plType, im |-> im, om |-> r.om, err |-> r.err,
                      failed |-> d.err # "nil", ct |-> c.ct, impl |-> c.agent.SAImplID,
                      o |-> o]
        /\ UNCHANGED <<psmVars, busVars, runVars, agencyVars>>

\* Agent.AttachAPIEndp; ok tells whether the wallet stored the metadata
AttachAPIEndp(endp, ok) ==
    /\ agent' = [agent EXCEPT !.EAEndp = endp, !.meta = IF ok THEN endp ELSE @]
    /\ UNCHANGED <<sacall, psmVars, busVars, runVars, agencyVars>>

\* Agent.AttachSAImpl on the CA; ok tells whether storing the endpoint succeeded
AttachSAImpl(implID, persistent, ok) ==
    /\ agent' = IF ~persistent
                THEN [agent EXCEPT !.SAImplID = implID, !.waSAImplID = implID]
                ELSE IF ok
                THEN [agent EXCEPT !.SAImplID = implID, !.waSAImplID = implID,
                                   !.EAEndp = ImplEndp(implID), !.meta = ImplEndp(implID)]
                ELSE [agent EXCEPT !.SAImplID = implID, !.EAEndp = ImplEndp(implID)]
    /\ UNCHANGED <<sacall, psmVars, busVars, runVars, agencyVars>>

(***************************************************************************)
(* The question/answer pattern of the notification bus.                    *)
(***************************************************************************)
AgentKeyType(did, client) == [AgentDID |-> did, ClientID |-> client]
AgentKeys == {AgentKeyType("AgentDID", "ClientID"), AgentKeyType("OtherDID", "ClientID")}

\* the answer channels AgentSendQuestion makes, in the order of the calls
Chans == 1..Cardinality(QIds)

AgentQuestion(key, id, conn) ==
    [AgentDID |-> key.AgentDID, ClientID |-> key.ClientID, ID |-> id, ConnectionID |-> conn]
AgentQuestions == {AgentQuestion(key, id, "ConnectionID") : key \in AgentKeys, id \in QIds}

AgentAnswer(key, id, ack, info) ==
    [AgentDID |-> key.AgentDID, ClientID |-> key.ClientID, ID |-> id, ACK |-> ack, Info |-> info]
AgentAnswers == {AgentAnswer(key, id, TRUE, "TestInfo") : key \in AgentKeys, id \in QIds}

KeyOf(m) == AgentKeyType(m.AgentDID, m.ClientID)

\* capacity of an answerer's question channel
QChanCap == 1

Station(on, ch, posted) == [on |-> on, ch |-> ch, posted |-> posted]

Waiter(id, ch) == [ID |-> id, ch |-> ch]

RECURSIVE Told(_)
\* the number of answers sent with the ids in ids
Told(ids) == IF ids = {} THEN 0
             ELSE LET id == CHOOSE x \in ids : TRUE IN told[id] + Told(ids \ {id})

\* the waiters an answer with this id is for
WaitersOf(id) == SelectSeq(waiting, LAMBDA w : w.ID = id)

\* AgentAddAnswerer: register the answerer of key with a fresh question channel
AgentAddAnswerer(key) ==
    /\ ~station[key].on
    /\ station' = [station EXCEPT ![key] = Station(TRUE, <<>>, {})]
    /\ UNCHANGED <<waiting, answerCh, asked, heard, told, accepted, got, psmVars, saVars, runVars, agencyVars>>

\* AgentRmAnswerer
AgentRmAnswerer(key) ==
    /\ station[key].on
    /\ station' = [station EXCEPT ![key] = Station(FALSE, <<>>, {})]
    /\ UNCHANGED <<waiting, answerCh, asked, heard, told, accepted, got, psmVars, saVars, runVars, agencyVars>>

\* an AgentSendQuestion that puts the question on the channel without its
\* connection id
AgentSendQuestion_DropsConnection(q) ==
    /\ \A i \in 1..Len(asked) : asked[i].ID # q.ID
    /\ asked' = Append(asked, q)
    /\ IF station[KeyOf(q)].on
       THEN /\ Len(station[KeyOf(q)].ch) < QChanCap
            /\ station' = [station EXCEPT ![KeyOf(q)].ch = Append(@, [q EXCEPT !.ConnectionID = ""]),
                                          ![KeyOf(q)].posted = @ \cup {q}]
            /\ waiting' = Append(waiting, Waiter(q.ID, Len(asked) + 1))
       ELSE UNCHANGED <<station, waiting>>
    /\ UNCHANGED <<answerCh, heard, told, accepted, got, psmVars, saVars, runVars, agencyVars>>

\* AgentSendQuestion: put the question on the channel of its key's answerer (the
\* sender blocks while the channel is full) and return a new answer channel on
\* which the question's id waits
AgentSendQuestion(q) ==
    /\ \A i \in 1..Len(asked) : asked[i].ID # q.ID
    /\ asked' = Append(asked, q)
    /\ IF station[KeyOf(q)].on
       THEN /\ Len(station[KeyOf(q)].ch) < QChanCap
            /\ station' = [station EXCEPT ![KeyOf(q)].ch = Append(@, q),
                                          ![KeyOf(q)].posted = @ \cup {q}]
            /\ waiting' = Append(waiting, Waiter(q.ID, Len(asked) + 1))
       ELSE UNCHANGED <<station, waiting>>
    /\ UNCHANGED <<answerCh, heard, told, accepted, got, psmVars, saVars, runVars, agencyVars>>

\* the answerer of key takes the next question from its channel
ReceiveQuestion(key) ==
    /\ station[key].on
    /\ station[key].ch # <<>>
    /\ heard' = [heard EXCEPT ![key] = Append(@, Head(station[key].ch))]
    /\ station' = [station EXCEPT ![key].ch = Tail(@)]
    /\ UNCHANGED <<waiting, answerCh, asked, told, accepted, got, psmVars, saVars, runVars, agencyVars>>

\* an AgentSendAnswer that hands the answer to the question that waits longest
AgentSendAnswer_ToOldest(a) ==
    /\ Told(QIds) < MaxAnswers
    /\ told' = [told EXCEPT ![a.ID] = @ + 1]
    /\ IF waiting # <<>>
       THEN /\ answerCh' = [answerCh EXCEPT ![Head(waiting).ch] = Append(@, a)]
            /\ accepted' = [accepted EXCEPT ![Head(waiting).ch] = Append(@, a)]
            /\ waiting' = Tail(waiting)
       ELSE UNCHANGED <<answerCh, accepted, waiting>>
    /\ UNCHANGED <<station, asked, heard, got, psmVars, saVars, runVars, agencyVars>>

\* an AgentSendAnswer that leaves the waiter in the map after it delivered
AgentSendAnswer_KeepsWaiter(a) ==
    /\ Told(QIds) < MaxAnswers
    /\ told' = [told EXCEPT ![a.ID] = @ + 1]
    /\ IF WaitersOf(a.ID) # <<>>
       THEN /\ answerCh' = [answerCh EXCEPT ![Head(WaitersOf(a.ID)).ch] = Append(@, a)]
            /\ accepted' = [accepted EXCEPT ![Head(WaitersOf(a.ID)).ch] = Append(@, a)]
       ELSE UNCHANGED <<answerCh, accepted>>
    /\ UNCHANGED <<station, waiting, asked, heard, got, psmVars, saVars, runVars, agencyVars>>

\* AgentSendAnswer: deliver the answer on the channel of the question that waits
\* with the answer's id and forget the waiter; without a waiter the answer is
\* discarded
AgentSendAnswer(a) ==
    /\ Told(QIds) < MaxAnswers
    /\ told' = [told EXCEPT ![a.ID] = @ + 1]
    /\ IF WaitersOf(a.ID) # <<>>
       THEN /\ answerCh' = [answerCh EXCEPT ![Head(WaitersOf(a.ID)).ch] = Append(@, a)]
            /\ accepted' = [accepted EXCEPT ![Head(WaitersOf(a.ID)).ch] = Append(@, a)]
            /\ waiting' = SelectSeq(waiting, LAMBDA w : w.ID # a.ID)
       ELSE UNCHANGED <<answerCh, accepted, waiting>>
    /\ UNCHANGED <<station, asked, heard, got, psmVars, saVars, runVars, agencyVars>>

\* the caller of AgentSendQuestion receives from its answer channel
ReceiveAnswer(c) ==
    /\ answerCh[c] # <<>>
    /\ got' = [got EXCEPT ![c] = Append(@, Head(answerCh[c]))]
    /\ answerCh' = [answerCh EXCEPT ![c] = Tail(@)]
    /\ UNCHANGED <<station, waiting, asked, heard, told, accepted, psmVars, saVars, runVars, agencyVars>>

\* the caller's deadline passes while its question waits: the waiter is removed
Cancel(c) ==
    /\ \E i \in 1..Len(waiting) : waiting[i].ch = c
    /\ waiting' = SelectSeq(waiting, LAMBDA w : w.ch # c)
    /\ UNCHANGED <<station, answerCh, asked, heard, told, accepted, got, psmVars, saVars, runVars, agencyVars>>

(***************************************************************************)
(* The PSM specification.                                                  *)
(***************************************************************************)
(***************************************************************************)
(* didCommServer.Run: start a protocol and stream its states.  The status  *)
(* events reach Run through two listener channels of the bus; an event is  *)
(* posted without blocking and is lost when the channel is full.           *)
(***************************************************************************)
\* capacity of a listener's channel
ListenerCap == 1

\* the sub states an instance posts on the bus
Statuses == {Sending, Waiting, ReadyACK, ReadyNACK, Failure, ACK, NACK}

\* the errors that end Run before it listens: token, agent lookup, task
RunErrors == {"token", "agent", "task"}

\* pb.ProtocolState: the protocol's id, the state and the info text
ProtocolState(id, state, info) == [id |-> id, state |-> state, info |-> info]

\* one server.Send call and whether it succeeded
SendCall(msg, ok) == [msg |-> msg, ok |-> ok]

\* a status mapping that reports a rejection as OK
StatusCode_RejectIsOK(status) ==
    CASE status \in {ReadyACK, ACK, ReadyNACK, NACK} -> "OK"
      [] status = Failure -> "ERR"
      [] OTHER -> "RUNNING"

\* the status code of the switch on a status event; RUNNING is the zero value,
\* kept by the events that do not leave the loop
StatusCode(status) ==
    CASE status \in {ReadyACK, ACK} -> "OK"
      [] status \in {ReadyNACK, NACK} -> "NACK"
      [] status = Failure -> "ERR"
      [] OTHER -> "RUNNING"

\* the status events that leave the loop
Breaks(status) == status \in {ReadyACK, ACK, ReadyNACK, NACK, Failure}

\* a user-action message that does not name the protocol
WaitAction_NoID(id) == ProtocolState("", "WAIT_ACTION", "")

\* the state Run sends when a user action is pending
WaitAction(id) == ProtocolState(id, "WAIT_ACTION", "")

\* the deferred error handler: one Send of an ERR state with the error as info
ErrState(err) == ProtocolState("", "ERR", err)

\* what becomes of the task Run hands to the engine: the starter of its
\* protocol starts the PSM, or catches the error of StartPSM and logs it, or
\* finds no case for the task's type and logs that
StartOutcomes == {"ok", "DuplicateProtocol", "setup", "unsupported"}

\* a Run that starts the task before it adds its listeners
RunBegin_StartsFirst(n, early, ok) ==
    /\ runpc = "init"
    /\ IF early # "nil"
       THEN /\ stream' = Append(stream, SendCall(ErrState(early), ok))
            /\ runerr' = early
            /\ runpc' = "done"
            /\ UNCHANGED <<runtask, listening, started>>
       ELSE /\ ok
            /\ runtask' = n
            /\ started' = "ok"
            /\ runpc' = "start"
            /\ UNCHANGED <<stream, runerr, listening>>
    /\ UNCHANGED <<statusChan, userActionChan, taken, offered, events, ended,
                   psmVars, saVars, busVars, agencyVars>>

\* Run up to the start of the task: check the token, find the agent, build the
\* task and add the two listeners; any error ends Run in the error handler
RunBegin(n, early, ok) ==
    /\ runpc = "init"
    /\ IF early # "nil"
       THEN /\ stream' = Append(stream, SendCall(ErrState(early), ok))
            /\ runerr' = early
            /\ runpc' = "done"
            /\ UNCHANGED <<runtask, listening>>
       ELSE /\ ok
            /\ runtask' = n
            /\ listening' = TRUE
            /\ runpc' = "start"
            /\ UNCHANGED <<stream, runerr>>
    /\ UNCHANGED <<statusChan, userActionChan, taken, offered, events, ended, started,
                   psmVars, saVars, busVars, agencyVars>>

\* prot.FindAndStartTask and the entry of the loop: the call returns nothing,
\* so Run goes on to its select whatever became of the start
RunStart(start) ==
    /\ runpc = "start"
    /\ started = ""
    /\ started' = start
    /\ runpc' = "loop"
    /\ UNCHANGED <<runtask, listening, statusChan, userActionChan, stream, runerr,
                   taken, offered, events, ended, psmVars, saVars, busVars, agencyVars>>

\* select, case statusChan: a terminal status leaves the loop, removes the
\* listeners and sends the final state; the other statuses are passed over
RunStatus(ok, ok2) ==
    /\ runpc = "loop"
    /\ statusChan # <<>>
    /\ LET status == Head(statusChan)
           final == ProtocolState(runtask, StatusCode(status), "")
       IN  /\ statusChan' = Tail(statusChan)
           /\ taken' = Append(taken, <<"status", status>>)
           /\ IF ~Breaks(status)
              THEN /\ ok /\ ok2
                   /\ UNCHANGED <<runpc, listening, stream, runerr>>
              ELSE /\ listening' = FALSE
                   /\ runpc' = "done"
                   /\ IF ok
                      THEN /\ ok2
                           /\ stream' = Append(stream, SendCall(final, TRUE))
                           /\ runerr' = "nil"
                      ELSE /\ stream' = stream \o <<SendCall(final, FALSE),
                                                     SendCall(ErrState("send"), ok2)>>
                           /\ runerr' = "send"
    /\ UNCHANGED <<runtask, userActionChan, offered, events, ended, started,
                   psmVars, saVars, busVars, agencyVars>>

\* select, case userActionChan: Waiting is reported as WAIT_ACTION; a failed
\* Send ends Run in the error handler, with the listeners still registered
RunUserAction(ok, ok2) ==
    /\ runpc = "loop"
    /\ userActionChan # <<>>
    /\ LET status == Head(userActionChan)
       IN  /\ userActionChan' = Tail(userActionChan)
           /\ taken' = Append(taken, <<"useraction", status>>)
           /\ IF status # Waiting
              THEN /\ ok /\ ok2
                   /\ UNCHANGED <<runpc, stream, runerr>>
              ELSE IF ok
              THEN /\ ok2
                   /\ stream' = Append(stream, SendCall(WaitAction(runtask), TRUE))
                   /\ UNCHANGED <<runpc, runerr>>
              ELSE /\ stream' = stream \o <<SendCall(WaitAction(runtask), FALSE),
                                             SendCall(ErrState("send"), ok2)>>
                   /\ runerr' = "send"
                   /\ runpc' = "done"
    /\ UNCHANGED <<runtask, listening, statusChan, offered, events, ended, started,
                   psmVars, saVars, busVars, agencyVars>>

\* the started instance posts a sub state while Run has not returned: to the
\* listener of all states, and to the listener of user actions when ua, where
\* they are registered; a full channel loses the event; nothing is posted
\* after a terminal sub state
Broadcast(status, ua) ==
    /\ runpc \in {"start", "loop"}
    /\ started = "ok"
    /\ ~ended
    /\ events < MaxEvents
    /\ ua => status = Waiting
    /\ events' = events + 1
    /\ ended' = Breaks(status)
    /\ statusChan' = IF listening /\ Len(statusChan) < ListenerCap
                     THEN Append(statusChan, status)
                     ELSE statusChan
    /\ IF listening /\ ua /\ Len(userActionChan) < ListenerCap
       THEN /\ userActionChan' = Append(userActionChan, status)
            /\ offered' = offered + 1
       ELSE UNCHANGED <<userActionChan, offered>>
    /\ UNCHANGED <<runpc, runtask, listening, stream, runerr, taken, started,
                   psmVars, saVars, busVars, agencyVars>>

(***************************************************************************)
(* The pairwise maps of an agent (Agent.pws, Agent.pwNames, Agent.pwLock). *)
(***************************************************************************)
PwTasks == {"t1", "t2"}
NoHolder == "none"

MyDIDs == {"d1", "d2"}
PwNames == {"alice", "bob"}

Pipe(me, you) == [In |-> me, Out |-> you]

\* what a Go map gives for a key it does not have
NoPipe == Pipe("", "")

\* the pairwise triples the agent is asked to add
Triples == {<<"d1", "y1", "alice">>, <<"d1", "y1", "bob">>, <<"d2", "y2", "bob">>,
            <<"d1", "y3", "bob">>}

\* the pairwise records the agent's wallet lists
WalletPairwise == {[MyDid |-> "d2", TheirDid |-> "y2", Metadata |-> "bob"]}

\* what the wallet answers to Pairwise(name) for a name the map does not have
WalletLookups == {"found", "missing", "error"}

PwCall(op, me, you, name) ==
    [op |-> op, me |-> me, you |-> you, name |-> name, res |-> NoPipe, err |-> "nil"]

NoPwCall == PwCall("none", "", "", "")

\* a.pwLock.Lock() at the head of an operation: the task waits for the lock
PwEnter(t, c) ==
    /\ pwpc[t] = "idle"
    /\ pwLock = NoHolder
    /\ pwLock' = t
    /\ pwpc' = [pwpc EXCEPT ![t] = "locked"]
    /\ pwcall' = [pwcall EXCEPT ![t] = c]
    /\ UNCHANGED <<pws, pwNames>>

\* the body of an operation, between Lock and the deferred Unlock
PwBody(t, c, byDID, byName, res, err) ==
    /\ pwpc[t] = "locked"
    /\ pwcall[t] = c
    /\ pws' = byDID
    /\ pwNames' = byName
    /\ pwpc' = [pwpc EXCEPT ![t] = "done"]
    /\ pwcall' = [pwcall EXCEPT ![t].res = res, ![t].err = err]
    /\ UNCHANGED pwLock

\* the deferred a.pwLock.Unlock() as the operation returns
PwLeave(t, c) ==
    /\ pwpc[t] = "done"
    /\ [pwcall[t] EXCEPT !.res = NoPipe, !.err = "nil"] = c
    /\ pwLock' = NoHolder
    /\ pwpc' = [pwpc EXCEPT ![t] = "idle"]
    /\ pwcall' = [pwcall EXCEPT ![t] = NoPwCall]
    /\ UNCHANGED <<pws, pwNames>>

\* Agent.PwPipe: the pipe of a pairwise name, from the map or from the wallet
PwPipe(t, pw, w) ==
    LET c == PwCall("PwPipe", "", "", pw) IN
    /\ UNCHANGED <<psmVars, saVars, busVars, runVars, weaVars, regVars, tfVars>>
    /\ \/ w = "found" /\ PwEnter(t, c)
       \/ IF pwNames[pw] # NoPipe
          THEN w = "found" /\ PwBody(t, c, pws, pwNames, pwNames[pw], "nil")
          ELSE CASE w = "found" -> PwBody(t, c, pws, pwNames, Pipe("w:" \o pw, "y:" \o pw), "nil")
                 [] w = "missing" -> PwBody(t, c, pws, pwNames, NoPipe, "cannot find pw")
                 [] OTHER -> PwBody(t, c, pws, pwNames, NoPipe, "wallet error")
       \/ w = "found" /\ PwLeave(t, c)

\* a SecPipe that reads the map without the lock
SecPipe_NoLock(t, meDID) ==
    LET c == PwCall("SecPipe", meDID, "", "") IN
    /\ UNCHANGED <<psmVars, saVars, busVars, runVars, weaVars, regVars, tfVars>>
    /\ \/ /\ pwpc[t] = "idle"
          /\ pwpc' = [pwpc EXCEPT ![t] = "locked"]
          /\ pwcall' = [pwcall EXCEPT ![t] = c]
          /\ UNCHANGED <<pws, pwNames, pwLock>>
       \/ PwBody(t, c, pws, pwNames, pws[meDID], "nil")
       \/ /\ PwLeave(t, c)

\* Agent.SecPipe: the pipe of one of the agent's own DIDs
SecPipe(t, meDID) ==
    LET c == PwCall("SecPipe", meDID, "", "") IN
    /\ UNCHANGED <<psmVars, saVars, busVars, runVars, weaVars, regVars, tfVars>>
    /\ \/ PwEnter(t, c)
       \/ PwBody(t, c, pws, pwNames, pws[meDID], "nil")
       \/ PwLeave(t, c)

\* Agent.AddToPWMap: it stores the pipe under the DID and under the name and
\* returns it; it has no error to return
AddToPWMap(t, me, you, name) ==
    LET c == PwCall("AddToPWMap", me, you, name)
        pipe == Pipe(me, you)
    IN  /\ UNCHANGED <<psmVars, saVars, busVars, runVars, weaVars, regVars, tfVars>>
        /\ \/ PwEnter(t, c)
           \/ PwBody(t, c, [pws EXCEPT ![me] = pipe], [pwNames EXCEPT ![name] = pipe], pipe, "nil")
           \/ PwLeave(t, c)

\* Agent.AddPipeToPWMap
AddPipeToPWMap(t, p, name) ==
    LET c == PwCall("AddPipeToPWMap", p.In, p.Out, name) IN
    /\ UNCHANGED <<psmVars, saVars, busVars, runVars, weaVars, regVars, tfVars>>
    /\ \/ PwEnter(t, c)
       \/ PwBody(t, c, [pws EXCEPT ![p.In] = p], [pwNames EXCEPT ![name] = p], NoPipe, "nil")
       \/ PwLeave(t, c)

\* the pipe the wallet's records give for a DID or a name, else the one in old
Loaded(old, field) ==
    [x \in DOMAIN old |->
        IF \E d \in WalletPairwise : d[field] = x
        THEN LET d == CHOOSE d \in WalletPairwise : d[field] = x IN Pipe(d.MyDid, d.TheirDid)
        ELSE old[x]]

\* Agent.loadPWMap: the wallet's list is read before the lock is taken; ok
\* tells whether the wallet could list its pairwise records
loadPWMap(t, ok) ==
    LET c == PwCall("loadPWMap", "", "", "") IN
    /\ UNCHANGED <<psmVars, saVars, busVars, runVars, weaVars, regVars, tfVars>>
    /\ \/ /\ ~ok
          /\ pwpc[t] = "idle"
          /\ pwcall' = [pwcall EXCEPT ![t] = [c EXCEPT !.err = "could not load pw map"]]
          /\ UNCHANGED <<pws, pwNames, pwLock, pwpc>>
       \/ ok /\ PwEnter(t, c)
       \/ ok /\ PwBody(t, c, Loaded(pws, "MyDid"), Loaded(pwNames, "Metadata"), NoPipe, "nil")
       \/ ok /\ PwLeave(t, c)

(***************************************************************************)
(* The worker EA of a CA (Agent.worker, Agent.WEA, Agent.workerAgent).     *)
(***************************************************************************)
WeaTasks == {"t1", "t2", "t3"}
\* the CA and its root DID
CA == "ca"
CARoot == "root-did"

\* an Agent as far as the CA and its worker refer to each other
AgentObj(id, type, root, ca) == [id |-> id, Type |-> type, Root |-> root, ca |-> ca]

NoWorker == AgentObj("nil", {}, "", "")

\* the DID of the worker EA: a.Tr.PayloadPipe().Out.Did()
RcvrDID == "WorkerDID"

\* the n-th worker agent the CA allocates
\* a worker agent that is made without its CA
WorkerAgent_NoCA(n) == AgentObj("worker-" \o ToString(n), {"Edge", "Worker"}, CARoot, "")

WorkerAgent(n) == AgentObj("worker-" \o ToString(n), {"Edge", "Worker"}, CARoot, CA)

\* Agent.MyCA: the CA of a worker; it panics for an agent that is no worker
\* and for a worker without a CA
MyCA(a) ==
    IF "Worker" \notin a.Type THEN "panic: not a worker agent"
    ELSE IF a.ca = "" THEN "panic: CA is nil in Worker EA"
    ELSE a.ca

Rcvr(did, wa) == [did |-> did, agent |-> wa]

\* Agent.WEA (WorkerEA returns its result): the worker if there is one, else
\* the call of workerAgent
WEA(t) ==
    /\ weapc[t] = "idle"
    /\ UNCHANGED <<psmVars, saVars, busVars, runVars, pwVars, regVars, tfVars>>
    /\ IF worker # NoWorker
       THEN /\ returned' = returned \cup {worker}
            /\ UNCHANGED <<worker, created, rcvrs, loaded, weapc>>
       ELSE /\ weapc' = [weapc EXCEPT ![t] = "workerAgent"]
            /\ UNCHANGED <<worker, created, rcvrs, loaded, returned>>

\* Agent.workerAgent, in the steps between which other tasks run: the check of
\* a.worker and the preparation of the wallet (ok: the wallet key was found,
\* else the call panics), the assignment of the new agent to a.worker, its
\* registration in the active receivers, the loading of its pairwise map, and
\* the return of a.worker
workerAgent(t, ok) ==
    /\ UNCHANGED <<psmVars, saVars, busVars, runVars, pwVars, regVars, tfVars>>
    /\ \/ /\ weapc[t] = "workerAgent"
          /\ weapc' = [weapc EXCEPT ![t] = IF worker # NoWorker THEN "return"
                                            ELSE IF ok THEN "create" ELSE "idle"]
          /\ UNCHANGED <<worker, created, rcvrs, loaded, returned>>
       \/ /\ ok /\ weapc[t] = "create"
          /\ worker' = WorkerAgent(created + 1)
          /\ created' = created + 1
          /\ weapc' = [weapc EXCEPT ![t] = "register"]
          /\ UNCHANGED <<rcvrs, loaded, returned>>
       \/ /\ ok /\ weapc[t] = "register"
          /\ rcvrs' = Append(rcvrs, Rcvr(RcvrDID, worker))
          /\ weapc' = [weapc EXCEPT ![t] = "load"]
          /\ UNCHANGED <<worker, created, loaded, returned>>
       \/ /\ ok /\ weapc[t] = "load"
          /\ loaded' = loaded \cup {worker}
          /\ weapc' = [weapc EXCEPT ![t] = "return"]
          /\ UNCHANGED <<worker, created, rcvrs, returned>>
       \/ /\ ok /\ weapc[t] = "return"
          /\ returned' = returned \cup {worker}
          /\ weapc' = [weapc EXCEPT ![t] = "idle"]
          /\ UNCHANGED <<worker, created, rcvrs, loaded>>

(***************************************************************************)
(* The protocol registry and the init functions of the two families.       *)
(***************************************************************************)
Families == {"present-proof", "issue-credential"}

Entry(table, key, proc) == [table |-> table, key |-> key, proc |-> proc]

\* the registrations of presentproof's init, in its order
presentProofInit ==
    <<Entry("creator", "CAProofPropose", "presentProofProcessor"),
      Entry("creator", "CAProofRequest", "presentProofProcessor"),
      Entry("starter", "CAProofPropose", "presentProofProcessor"),
      Entry("starter", "CAProofRequest", "presentProofProcessor"),
      Entry("continuator", "CAContinuePresentProofProtocol", "presentProofProcessor"),
      Entry("status", "present-proof", "presentProofProcessor"),
      Entry("processor", "present-proof", "presentProofProcessor")>>

\* the registrations of issuecredential's init, in its order
issueCredentialInit ==
    <<Entry("creator", "issue-credential", "issueCredentialProcessor"),
      Entry("starter", "CACredRequest", "issueCredentialProcessor"),
      Entry("starter", "CACredOffer", "issueCredentialProcessor"),
      Entry("continuator", "CAContinueIssueCredentialProtocol", "issueCredentialProcessor"),
      Entry("status", "issue-credential", "issueCredentialProcessor"),
      Entry("processor", "issue-credential", "issueCredentialProcessor")>>

InitOf(f) == IF f = "present-proof" THEN presentProofInit ELSE issueCredentialInit

Processors == {"presentProofProcessor", "issueCredentialProcessor"}

RegCall(op, e, err) == [op |-> op, entry |-> e, err |-> err]

NoEntry == Entry("", "", "none")

NoRegCall == RegCall("none", NoEntry, "nil")

\* the entries of the registry that have the table and the key of e
Registered(reg, e) == {x \in reg : x.table = e.table /\ x.key = e.key}

\* a registration that replaces the entry a key has
AddEntry_Replaces(reg, e) ==
    [reg |-> (reg \ Registered(reg, e)) \cup {e}, err |-> "nil"]

\* the registration of one entry (prot.AddCreator, AddStarter, AddContinuator,
\* AddStatusProvider, comm.Proc.Add): a key that is registered with another
\* entry is an error, the same entry again changes nothing
AddEntry(reg, e) ==
    IF \E x \in Registered(reg, e) : x # e
    THEN [reg |-> reg, err |-> "DuplicateRegistration"]
    ELSE [reg |-> reg \cup {e}, err |-> "nil"]

\* one registration of a family's init; the init functions of the packages run
\* one after the other, in either order, before the program serves
InitStep(f) ==
    LET e == InitOf(f)[regpc[f] + 1]
        r == AddEntry(registry, e)
    IN  /\ ~sealed
        /\ regpc[f] < Len(InitOf(f))
        /\ \A g \in Families \ {f} : regpc[g] \in {0, Len(InitOf(g))}
        /\ ~(regcall.op = "init" /\ regcall.err # "nil")
        /\ registry' = r.reg
        /\ regcall' = RegCall("init", e, r.err)
        /\ regpc' = [regpc EXCEPT ![f] = @ + 1]
        /\ UNCHANGED sealed
        /\ UNCHANGED <<psmVars, saVars, busVars, runVars, pwVars, weaVars, tfVars>>

\* presentproof's init
initPresentProof == InitStep("present-proof")

\* issuecredential's init
initIssueCredential == InitStep("issue-credential")

\* a family that is registered registers its i-th entry again, with its own
\* processor or with another one
Register(f, i, proc) ==
    LET e == [InitOf(f)[i] EXCEPT !.proc = proc]
        r == AddEntry(registry, e)
    IN  /\ ~sealed
        /\ regpc[f] = Len(InitOf(f))
        /\ \A g \in Families : regpc[g] \in {0, Len(InitOf(g))}
        /\ registry' = r.reg
        /\ regcall' = RegCall("register", e, r.err)
        /\ UNCHANGED <<regpc, sealed>>
        /\ UNCHANGED <<psmVars, saVars, busVars, runVars, pwVars, weaVars, tfVars>>

\* the end of initialization: the program starts to serve
InitDone ==
    /\ ~sealed
    /\ \A f \in Families : regpc[f] = Len(InitOf(f))
    /\ sealed' = TRUE
    /\ regcall' = NoRegCall
    /\ UNCHANGED <<registry, regpc>>
    /\ UNCHANGED <<psmVars, saVars, busVars, runVars, pwVars, weaVars, tfVars>>

\* the lookup of a key in a table of the registry while the program serves
Lookup(table, key) ==
    LET e == Entry(table, key, "")
        found == Registered(registry, e)
    IN  /\ sealed
        /\ regcall' = RegCall("lookup",
                              IF found = {} THEN [NoEntry EXCEPT !.table = table, !.key = key]
                              ELSE CHOOSE x \in found : TRUE,
                              IF found = {} THEN "NotFound" ELSE "nil")
        /\ UNCHANGED <<registry, regpc, sealed>>
        /\ UNCHANGED <<psmVars, saVars, busVars, runVars, pwVars, weaVars, tfVars>>

\* the tables and keys a lookup asks for
RegTables == {"creator", "starter", "continuator", "status", "processor"}
RegKeys == {"CAProofPropose", "CAProofRequest", "CACredOffer", "CACredRequest",
            "CAContinuePresentProofProtocol", "issue-credential", "present-proof", "connection"}

(***************************************************************************)
(* The task the server builds from the protocol a client starts.           *)
(***************************************************************************)
MaxStarts == 3

\* utils.UUID: the n-th id the generator gives
UUID(n) == "uuid-" \o ToString(n)

InvitationIds == {"inv-1", "inv-2"}
NoAttr == "nil"

\* pb.Protocol as far as taskFrom reads it; attr is the invitation's id of the
\* connection attributes or the id of the cred def, NoAttr when it has none
Protocol(typeId, role, conn, attr) ==
    [TypeId |-> typeId, Role |-> role, ConnectionId |-> conn, attr |-> attr]

Protocols ==
    {Protocol(ty, ro, "conn", NoAttr) :
        ty \in {"TRUST_PING", "BASIC_MESSAGE", "CONNECT", "ISSUE", "PROOF"},
        ro \in {"INITIATOR", "ADDRESSEE"}}
      \cup {Protocol("CONNECT", "INITIATOR", "conn", i) : i \in InvitationIds}
      \cup {Protocol("ISSUE", "INITIATOR", "conn", "cd:1")}

\* comm.Task as far as taskFrom fills it
CommTask(nonce, typeID, message, credDefID, invitation) ==
    [Nonce |-> nonce, TypeID |-> typeID, Message |-> message, CredDefID |-> credDefID,
     ConnectionInvitation |-> invitation]

NilTask == CommTask("", "", "", NoAttr, NoAttr)

NoTypeID == ""

\* uniqueTypeID: the payload type of a role and a protocol type, from the table
\* typeID; NoTypeID where the table has no entry and the function panics
uniqueTypeID(role, typeId) ==
    CASE role = "INITIATOR" /\ typeId = "CONNECT" -> "CAPairwiseCreate"
      [] role = "INITIATOR" /\ typeId = "ISSUE" -> "CACredOffer"
      [] role = "ADDRESSEE" /\ typeId = "ISSUE" -> "CACredRequest"
      [] role = "INITIATOR" /\ typeId = "PROOF" -> "CAProofRequest"
      [] role = "ADDRESSEE" /\ typeId = "PROOF" -> "CAProofPropose"
      [] role = "INITIATOR" /\ typeId = "TRUST_PING" -> "CATrustPing"
      [] role = "INITIATOR" /\ typeId = "BASIC_MESSAGE" -> "CABasicMessage"
      [] role = "RESUME" /\ typeId = "ISSUE" -> "CAContinueIssueCredentialProtocol"
      [] role = "RESUME" /\ typeId = "PROOF" -> "CAContinuePresentProofProtocol"
      [] OTHER -> NoTypeID

TaskResult(t, err) == [task |-> t, err |-> err]

\* a taskFrom that leaves the generated id in the task of a connection
taskFrom_KeepsUUID(protocol, uuid) ==
    LET task == CommTask(uuid, uniqueTypeID(protocol.Role, protocol.TypeId),
                         protocol.ConnectionId, NoAttr, NoAttr)
    IN  CASE task.TypeID = NoTypeID -> TaskResult(NilTask, "cannot find typeid")
          [] protocol.TypeId = "CONNECT" ->
                IF protocol.attr = NoAttr
                THEN TaskResult(NilTask, "connection attrs cannot be nil")
                ELSE TaskResult([task EXCEPT !.ConnectionInvitation = protocol.attr], "nil")
          [] protocol.TypeId = "ISSUE" /\ protocol.Role = "INITIATOR" ->
                IF protocol.attr = NoAttr
                THEN TaskResult(NilTask, "cred def cannot be nil for issuing protocol")
                ELSE TaskResult([task EXCEPT !.CredDefID = protocol.attr], "nil")
          [] OTHER -> TaskResult(task, "nil")

\* taskFrom: uuid is the id utils.UUID gave for this task
taskFrom(protocol, uuid) ==
    LET task == CommTask(uuid, uniqueTypeID(protocol.Role, protocol.TypeId),
                         protocol.ConnectionId, NoAttr, NoAttr)
    IN  CASE task.TypeID = NoTypeID -> TaskResult(NilTask, "cannot find typeid")
          [] protocol.TypeId = "CONNECT" ->
                IF protocol.attr = NoAttr
                THEN TaskResult(NilTask, "connection attrs cannot be nil")
                ELSE TaskResult([task EXCEPT !.ConnectionInvitation = protocol.attr,
                                             !.Nonce = protocol.attr], "nil")
          [] protocol.TypeId = "ISSUE" /\ protocol.Role = "INITIATOR" ->
                IF protocol.attr = NoAttr
                THEN TaskResult(NilTask, "cred def cannot be nil for issuing protocol")
                ELSE TaskResult([task EXCEPT !.CredDefID = protocol.attr], "nil")
          [] OTHER -> TaskResult(task, "nil")

NoMade == [protocol |-> Protocol("", "", "", NoAttr), task |-> NilTask, err |-> "nil",
           key |-> NewStateKey("", "")]

\* didCommServer.Start up to its call of the engine: the task of the protocol
\* and the key its PSM gets
StartTask(protocol) ==
    LET r == taskFrom(protocol, UUID(uuids + 1)) IN
    /\ uuids < MaxStarts
    /\ uuids' = uuids + 1
    /\ made' = [protocol |-> protocol, task |-> r.task, err |-> r.err,
                key |-> IF r.err = "nil" THEN NewStateKey(WorkerDID, r.task.Nonce)
                        ELSE NewStateKey("", "")]
    /\ nonces' = IF r.err = "nil" THEN nonces \cup {r.task.Nonce} ELSE nonces
    /\ UNCHANGED <<psmVars, saVars, busVars, runVars, pwVars, weaVars, regVars>>

Init ==
    /\ psm = [k \in Keys |-> <<>>]
    /\ reps = [k \in Keys |-> NoRep]
    /\ lock = [k \in Keys |-> NoProc]
    /\ pc = [p \in Procs |-> "idle"]
    /\ call = [p \in Procs |-> NoCall]
    /\ log = [k \in Keys |-> <<>>]
    /\ out = NoResult
    /\ agent = [SAImplID |-> "", EAEndp |-> NoEndp, meta |-> "pairwise", waSAImplID |-> ""]
    /\ sacall = NoSACall
    /\ station = [key \in AgentKeys |-> Station(FALSE, <<>>, {})]
    /\ waiting = <<>>
    /\ answerCh = [c \in Chans |-> <<>>]
    /\ asked = <<>>
    /\ heard = [key \in AgentKeys |-> <<>>]
    /\ told = [id \in QIds |-> 0]
    /\ accepted = [c \in Chans |-> <<>>]
    /\ got = [c \in Chans |-> <<>>]
    /\ runpc = "init"
    /\ runtask = ""
    /\ listening = FALSE
    /\ statusChan = <<>>
    /\ userActionChan = <<>>
    /\ stream = <<>>
    /\ runerr = "nil"
    /\ taken = <<>>
    /\ offered = 0
    /\ events = 0
    /\ ended = FALSE
    /\ started = ""
    /\ pws = [d \in MyDIDs |-> NoPipe]
    /\ pwNames = [n \in PwNames |-> NoPipe]
    /\ pwLock = NoHolder
    /\ pwpc = [t \in PwTasks |-> "idle"]
    /\ pwcall = [t \in PwTasks |-> NoPwCall]
    /\ worker = NoWorker
    /\ created = 0
    /\ rcvrs = <<>>
    /\ loaded = {}
    /\ weapc = [t \in WeaTasks |-> "idle"]
    /\ returned = {}
    /\ registry = {}
    /\ regpc = [f \in Families |-> 0]
    /\ regcall = NoRegCall
    /\ sealed = FALSE
    /\ uuids = 0
    /\ nonces = {}
    /\ made = NoMade

Next ==
    \/ \E p \in Procs, n \in Contended, tt \in TaskTypes : Start(p, Task(n, tt))
    \/ \E p \in Procs : StartSend(p)
    \/ \E p \in Procs : StartWait(p)
    \/ \E p \in Procs, packet \in Packets : Exec(p, packet)
    \/ \E p \in Procs : ExecInOut(p)
    \/ \E p \in Procs : ExecSend(p)
    \/ \E p \in Procs, n \in Contended, st \in ResumeStates : Resume(p, n, st)
    \/ \E p \in Procs, k \in CallKeys : Release(p, k)
    \/ \E n \in Contended : Status(n)

Spec == Init /\ [][Next]_vars

(***************************************************************************)
(* The service-agent specification: configuration and callbacks of one CA. *)
(***************************************************************************)
SANext ==
    \/ \E implID \in ImplIDs, persistent \in BOOLEAN, ok \in BOOLEAN :
          AttachSAImpl(implID, persistent, ok)
    \/ \E ok \in BOOLEAN : AttachAPIEndp(EAEndpoint, ok)
    \/ \E plType \in PlTypes, im \in Msgs, o \in SAOutcomes : CallEA(plType, im, o)

SASpec == Init /\ [][SANext]_vars

(***************************************************************************)
(* The bus specifications: BusSpec for safety; BusLive adds that a          *)
(* registered answerer keeps reading its question channel and a caller that *)
(* waits keeps reading its answer channel.                                  *)
(***************************************************************************)
BusNext ==
    \/ \E key \in AgentKeys : AgentAddAnswerer(key)
    \/ \E key \in AgentKeys : AgentRmAnswerer(key)
    \/ \E q \in AgentQuestions : AgentSendQuestion(q)
    \/ \E key \in AgentKeys : ReceiveQuestion(key)
    \/ \E a \in AgentAnswers : AgentSendAnswer(a)
    \/ \E c \in Chans : ReceiveAnswer(c)
    \/ \E c \in Chans : Cancel(c)

BusSpec == Init /\ [][BusNext]_vars

BusLive ==
    /\ Init /\ [][BusNext]_vars
    /\ \A key \in AgentKeys : WF_vars(ReceiveQuestion(key))
    /\ \A c \in Chans : WF_vars(ReceiveAnswer(c))

(***************************************************************************)
(* The Run specification: one Run call and the instance it started.        *)
(***************************************************************************)
RunNext ==
    \/ \E n \in Nonces, early \in RunErrors \cup {"nil"}, ok \in BOOLEAN : RunBegin(n, early, ok)
    \/ \E start \in StartOutcomes : RunStart(start)
    \/ \E ok, ok2 \in BOOLEAN : RunStatus(ok, ok2)
    \/ \E ok, ok2 \in BOOLEAN : RunUserAction(ok, ok2)
    \/ \E status \in Statuses, ua \in BOOLEAN : Broadcast(status, ua)

(***************************************************************************)
(* The specifications of the agent: its pairwise maps, its worker EA, the  *)
(* protocol registry, and the tasks of started protocols.                  *)
(***************************************************************************)
PWNext ==
    \/ \E t \in PwTasks, pw \in PwNames, w \in WalletLookups : PwPipe(t, pw, w)
    \/ \E t \in PwTasks, d \in MyDIDs : SecPipe(t, d)
    \/ \E t \in PwTasks, tr \in Triples : AddToPWMap(t, tr[1], tr[2], tr[3])
    \/ \E t \in PwTasks : AddPipeToPWMap(t, Pipe("d2", "y2"), "alice")
    \/ \E t \in PwTasks, ok \in BOOLEAN : loadPWMap(t, ok)

PWSpec == Init /\ [][PWNext]_vars

WEANext ==
    \/ \E t \in WeaTasks : WEA(t)
    \/ \E t \in WeaTasks, ok \in BOOLEAN : workerAgent(t, ok)

WEASpec == Init /\ [][WEANext]_vars

RegNext ==
    \/ initPresentProof
    \/ initIssueCredential
    \/ \E f \in Families, proc \in Processors :
          \E i \in 1..Len(InitOf(f)) : Register(f, i, proc)
    \/ InitDone
    \/ \E table \in RegTables, key \in RegKeys : Lookup(table, key)

RegSpec == Init /\ [][RegNext]_vars

StartNext == \E protocol \in Protocols : StartTask(protocol)

StartSpec == Init /\ [][StartNext]_vars

RunSpec == Init /\ [][RunNext]_vars

\* RunLive adds that the goroutine of Run goes on: it calls the engine once its
\* listeners are added, and its select takes an event that waits in a channel
RunLive ==
    /\ Init /\ [][RunNext]_vars
    /\ WF_vars(\E start \in StartOutcomes : RunStart(start))
    /\ WF_vars(\E ok, ok2 \in BOOLEAN : RunStatus(ok, ok2))
    /\ WF_vars(\E ok, ok2 \in BOOLEAN : RunUserAction(ok, ok2))

(***************************************************************************)
(* Properties of the PSM record.                                           *)
(***************************************************************************)
\* the sub state has Ready or Failure in its Pure() projection
HasReadyOrFailure(ss) == Pure(ss) \cap (Ready \cup Failure) # {}

\* the persist and send events of a key's history, in order
Persists(k) == SelectSeq(log[k], LAMBDA e : e.ev = "persist")

Steps(l) == SelectSeq(l, LAMBDA e : e.ev # "bus")

Kinds(l) == [i \in 1..Len(l) |-> <<l[i].ev, l[i].what>>]

Subs(rec) == [i \in 1..Len(rec) |-> rec[i].sub]

\* C1 as the specification states it: for every key, at most one persisted entry has Ready or Failure
\* in its Pure() projection, and that entry is the last one of the record.
C1_OneTerminalAndLast ==
    \A k \in Keys : \A i \in 1..Len(psm[k]) :
        HasReadyOrFailure(psm[k][i].sub) => i = Len(psm[k])

\* C1 amended: for every key, the entries with Ready or Failure in Pure() are the
\* tail of the record; the first of them is the only one without the Archiving
\* bit, and every later entry repeats its sub state with Archiving overlaid (the
\* entries Release adds), so the outcome of the last entry is that of the first.
C1_TerminalTail ==
    \A k \in Keys : \A i \in 1..Len(psm[k]) :
        HasReadyOrFailure(psm[k][i].sub) =>
            /\ (i > 1 /\ HasReadyOrFailure(psm[k][i - 1].sub)) \/ psm[k][i].sub \cap Archiving = {}
            /\ \A j \in (i + 1)..Len(psm[k]) : psm[k][j].sub = psm[k][i].sub \cup Archiving

\* C1 witness: a released terminal record, a terminal entry followed by its
\* Archiving overlay.
C1_Witness ==
    \E k \in Keys : \E i \in 1..Len(psm[k]) :
        /\ i < Len(psm[k])
        /\ psm[k][i].sub \in {ReadyACK, ReadyNACK, Failure}
        /\ out = Result("release", k, "nil", "ok")

\* C2: operations on one key are serialized: at most one task is inside an
\* operation on a key, it holds the key's exclusion, and the entries one
\* operation persists are contiguous in the key's record.
C2_Serialized ==
    \A k \in Keys :
        /\ \A p, q \in Procs :
              (pc[p] # "idle" /\ pc[q] # "idle" /\ call[p].key = k /\ call[q].key = k) => p = q
        /\ \A p \in Procs : (pc[p] # "idle" /\ call[p].key = k) => lock[k] = p
        /\ LET ps == Persists(k) IN
           \A i, j \in 1..Len(ps) :
              (i < j /\ ps[i].op = ps[j].op) => \A m \in i..j : ps[m].op = ps[i].op

\* C2 witness: an operation is in the middle of its writes on a key for which
\* another operation has persisted entries before.
C2_Witness ==
    \E k \in Keys, p \in Procs :
        /\ pc[p] \in {"exec_inout", "exec_send"}
        /\ call[p].key = k
        /\ \E i \in 1..Len(Persists(k)) : Persists(k)[i].op # call[p].id
        /\ Persists(k)[Len(Persists(k))].op = call[p].id

ExpectedWaiting(tt) ==
    CASE tt = "CACredOffer" -> "IssueCredentialRequest"
      [] tt = "CACredRequest" -> "IssueCredentialOffer"
      [] tt = "CAProofPropose" -> "PresentProofRequest"
      [] OTHER -> "PresentProofPresentation"

\* C8: a successful StartPSM on a fresh key leaves exactly two entries for the
\* key: Sending with role Initiator and the task, then Waiting tagged with the
\* starter's waitingNext; Sending is persisted before the send, Waiting after.
C8_StartPersistsSendingWaiting ==
    [][\A p \in Procs :
          (pc[p] = "start_wait" /\ pc'[p] = "idle") =>
             LET k == call[p].key
                 task == [id |-> k[2], type |-> call[p].typ]
             IN  /\ Len(psm'[k]) = 2
                 /\ psm'[k][1].sub = Sending /\ psm'[k][1].role = "Initiator"
                 /\ psm'[k][1].task = task
                 /\ psm'[k][2].sub = Waiting /\ psm'[k][2].tag = ExpectedWaiting(call[p].typ)
                 /\ psm'[k][2].task = task
                 /\ Kinds(Steps(log'[k])) = <<<<"persist", Sending>>, <<"send", call[p].sendNext>>,
                                              <<"persist", Waiting>>>>
                 /\ out' = Result("start", k, "nil", "ok")]_vars

\* C8 witness: a start has returned successfully and its two entries are the record.
C8_Witness ==
    \E k \in Keys : /\ out = Result("start", k, "nil", "ok")
                    /\ Subs(psm[k]) = <<Sending, Waiting>>
                    /\ \A p \in Procs : pc[p] = "idle"

\* what holds of a key after the pipe send of its StartPSM failed
StartSendFailed(k) ==
    /\ Subs(psm[k]) = <<Sending, Failure>>
    /\ Kinds(SelectSeq(log[k], LAMBDA e : e.ev \in {"send", "senderr"}))
          = <<<<"senderr", psm[k][1].tag>>>>
    /\ \E i \in 1..Len(log[k]) : log[k][i].ev = "bus" /\ log[k][i].what = Failure

\* C9 as the specification states it: when the pipe send of StartPSM fails, the record is Sending
\* then Failure, a failure event is posted, nothing is retried, and the caller of
\* the start receives TransportFailure.
C9_CallerReceivesTransportFailure ==
    \A k \in Keys :
        (out.op = "start" /\ out.key = k /\ out.err = "TransportFailure") =>
            (StartSendFailed(k) /\ out.rpc = "TransportFailure")

\* C9 amended: when the pipe send of StartPSM fails, the record is Sending then
\* Failure, a failure event is posted, no Waiting entry is written, the send is
\* tried once, and StartPSM returns TransportFailure to the starter; the starter
\* logs it and the caller of the Start RPC receives the protocol id and no error.
C9_StarterReceivesTransportFailure ==
    \A k \in Keys :
        (out.op = "start" /\ out.key = k /\ out.err = "TransportFailure") =>
            (StartSendFailed(k) /\ out.rpc = "ok")

\* C9 witness: a start whose send failed has returned.
C9_Witness ==
    \E k \in Keys : out.op = "start" /\ out.key = k /\ out.err = "TransportFailure"
                    /\ Len(psm[k]) = 2

\* C10: when Setup returns an error, StartPSM returns it with no persistent
\* change: the key has no PSM entry and no representation, and nothing was sent.
C10_SetupErrorChangesNothing ==
    [][\A k \in Keys :
          (pc' = pc /\ out'.op = "start" /\ out'.key = k /\ out'.err = "SetupError") =>
             /\ psm'[k] = <<>>
             /\ reps'[k] = NoRep
             /\ log'[k] = <<>>
             /\ psm' = psm /\ reps' = reps /\ log' = log]_vars

\* C10 witness: a start has failed in its Setup.
C10_Witness ==
    \E k \in Keys : out.op = "start" /\ out.key = k /\ out.err = "SetupError"
                    /\ psm[k] = <<>> /\ reps[k] = NoRep

(***************************************************************************)
(* Properties of ExecPSM.                                                  *)
(***************************************************************************)
\* the events operation op added to the history of key k in this step
Added(k) == SubSeq(log'[k], Len(log[k]) + 1, Len(log'[k]))

\* the persist events of the operation with identity id in history l
PersistsOf(l, id) == SelectSeq(l, LAMBDA e : e.ev = "persist" /\ e.op = id)

\* the sub state an inbound ACK or NACK message ends the instance in
ExpectedEnd(mt) == IF mt \in {"PresentProofACK", "IssueCredentialACK"} THEN ReadyACK ELSE ReadyNACK

\* C11: a transition whose sendNext is Terminate persists ReadyACK when InOut
\* returns ack = true and ReadyNACK when it returns false, posts that sub state on
\* the bus and sends nothing: an inbound ACK ends the instance in ReadyACK, an
\* inbound NACK in ReadyNACK.
C11_TerminateEndsReady ==
    [][\A p \in Procs :
          (pc[p] = "exec_inout" /\ pc'[p] = "idle" /\ call[p].sendNext = Terminate) =>
             LET k == call[p].key
                 end == ExpectedEnd(call[p].typ)
             IN  /\ call[p].typ \in {"PresentProofACK", "PresentProofNACK",
                                     "IssueCredentialACK", "IssueCredentialNACK"}
                 /\ Len(psm'[k]) = Len(psm[k]) + 1
                 /\ SubSeq(psm'[k], 1, Len(psm[k])) = psm[k]
                 /\ LastState(psm'[k]).sub = end
                 /\ Kinds(Added(k)) = <<<<"persist", end>>, <<"bus", end>>>>
                 /\ out'.err = "nil"]_vars

\* C11 witness: the holder's ACK has ended an instance that the issuer started, in
\* ReadyACK with nothing sent for it.
C11_Witness ==
    \E k \in Keys :
        /\ Len(psm[k]) >= 4
        /\ psm[k][1].role = "Initiator"
        /\ LastState(psm[k]).sub = ReadyACK
        /\ psm[k][Len(psm[k]) - 1].tag = "IssueCredentialACK"
        /\ Kinds(log[k])[Len(log[k])] = <<"bus", ReadyACK>>
        /\ out = Result("exec", k, "nil", "ok")

\* C12: when InOut returns an error the engine persists a Failure entry, posts
\* Failure on the bus and returns the error; the Failure entry is the last of the
\* record and nothing is sent in that transition.
C12_HandlerErrorIsFailure ==
    [][\A p \in Procs :
          (pc[p] = "exec_inout" /\ pc'[p] = "idle" /\ out'.err # "nil") =>
             LET k == call[p].key
             IN  /\ out' = Result("exec", k, "HandlerError", "HandlerError")
                 /\ Len(psm'[k]) = Len(psm[k]) + 1
                 /\ SubSeq(psm'[k], 1, Len(psm[k])) = psm[k]
                 /\ LastState(psm'[k]).sub = Failure
                 /\ Kinds(Added(k)) = <<<<"persist", Failure>>, <<"bus", Failure>>>>
                 /\ \A i \in 1..Len(log'[k]) :
                       log'[k][i].op = call[p].id => log'[k][i].ev \in {"persist", "bus"}]_vars

\* C12 witness: a handler has failed and the record ends in Failure.
C12_Witness ==
    \E k \in Keys :
        /\ out = Result("exec", k, "HandlerError", "HandlerError")
        /\ LastState(psm[k]).sub = Failure
        /\ psm[k][Len(psm[k]) - 1].sub = Sending

\* the handling of an inbound message by task p ends in this step
ExecEnds(p) == pc[p] \in {"exec_inout", "exec_send"} /\ pc'[p] = "idle" /\ call[p].op = "exec"

\* an inbound message is refused or ignored in this step
ExecRefused(k) == pc' = pc /\ out'.op = "exec" /\ out'.key = k /\ out' # out

\* C13 as the specification states it: an inbound message handled for a key whose
\* PSM is not terminal results in exactly one new entry, and in none with
\* ProtocolClosed when it is terminal.
C13_OneEntryPerMessage ==
    [][/\ \A p \in Procs :
             ExecEnds(p) => Len(PersistsOf(log'[call[p].key], call[p].id)) = 1
       /\ \A k \in Keys :
             ExecRefused(k) => (psm' = psm /\ out'.err = "ProtocolClosed")]_vars

\* C13 amended: an inbound message applied to a key whose PSM is not terminal
\* results in exactly two new entries, Sending for its receipt and then the
\* outcome of the transition (Waiting, ReadyACK, ReadyNACK or Failure); a message
\* for a terminal PSM fails with ProtocolClosed and one the PSM does not wait for
\* is ignored, both with no new entry.
C13_TwoEntriesPerMessage ==
    [][/\ \A p \in Procs :
             ExecEnds(p) =>
                LET k == call[p].key
                    n == Len(psm'[k])
                IN  /\ Kinds(PersistsOf(log'[k], call[p].id))
                          = <<<<"persist", Sending>>, <<"persist", psm'[k][n].sub>>>>
                    /\ psm'[k][n - 1].sub = Sending
                    /\ psm'[k][n].sub \in {Waiting, ReadyACK, ReadyNACK, Failure}
                    /\ n >= 2 /\ (n > 2 => ~IsTerminal(psm'[k][n - 2].sub))
       /\ \A k \in Keys :
             ExecRefused(k) =>
                /\ psm' = psm /\ log' = log
                /\ out'.err \in {"ProtocolClosed", "Ignored"}
                /\ (out'.err = "ProtocolClosed") <=> IsTerminal(LastState(psm[k]).sub)
       /\ \A p \in Procs, k \in Keys :
             (pc[p] = "idle" /\ pc'[p] = "exec_inout" /\ call'[p].key = k /\ psm[k] # <<>>)
                => ~IsTerminal(LastState(psm[k]).sub)]_vars

\* C13 witness: one message was applied and one was refused: the record ends with
\* the two entries of the applied one and the last call failed with ProtocolClosed.
C13_Witness ==
    \E k \in Keys :
        /\ out = Result("exec", k, "ProtocolClosed", "ProtocolClosed")
        /\ Len(psm[k]) >= 2
        /\ psm[k][Len(psm[k]) - 1].sub = Sending
        /\ IsTerminal(LastState(psm[k]).sub)

\* C14: an inbound message of another type than the one the PSM is Waiting for is
\* ignored: no task applies it, the record of the key is unchanged, nothing is
\* sent and nothing is posted on the bus.
C14_UnexpectedMessageIgnored ==
    [][\A k \in Keys :
          /\ (ExecRefused(k) /\ out'.err = "Ignored") =>
                /\ Waiting \subseteq LastState(psm[k]).sub
                /\ psm' = psm /\ reps' = reps /\ log' = log /\ lock' = lock
          /\ \A p \in Procs :
                (pc[p] = "idle" /\ pc'[p] = "exec_inout" /\ call'[p].key = k /\ psm[k] # <<>>
                   /\ Waiting \subseteq LastState(psm[k]).sub)
                   => LastState(psm[k]).tag = call'[p].typ]_vars

\* C14 witness: a message was ignored by an instance that waits for another one.
C14_Witness ==
    \E k \in Keys :
        /\ out = Result("exec", k, "Ignored", "Ignored")
        /\ LastState(psm[k]).sub = Waiting
        /\ LastState(psm[k]).tag \in MsgTypes

(***************************************************************************)
(* Properties of Status.                                                   *)
(***************************************************************************)
\* the protocol state of a record whose last entry is e
StateOf(e) ==
    IF e.pending THEN "WAIT_ACTION"
    ELSE IF e.sub \ Archiving = ReadyACK THEN "OK"
    ELSE IF e.sub \ Archiving \in {Ready, ReadyNACK} THEN "NACK"
    ELSE IF e.sub \ Archiving = Failure THEN "ERR"
    ELSE "RUNNING"

Resumes(p) == pc[p] = "idle" /\ pc'[p] = "exec_send" /\ call'[p].op = "resume"

\* C19: Resume re-enters a PSM that waits for the user's decision, takes the
\* decision as ACK exactly when the supplied state is ACK and as NACK otherwise,
\* continues with the task stored in the key's last entry, and touches only the
\* instance the supplied protocol id names.
C19_ResumeDecision ==
    [][\A p \in Procs :
          Resumes(p) =>
             LET c == call'[p]
                 k == c.key
                 last == LastState(psm[k])
             IN  /\ k = NewStateKey(WorkerDID, c.thid)
                 /\ last.pending /\ Waiting \subseteq last.sub
                 /\ c.ack = (c.state = "ACK")
                 /\ c.typ = last.task.type
                 /\ c.sendNext = Handler(last.task.type).SendNext
                 /\ psm'[k] = Append(psm[k], State(Sending, last.role, last.task,
                                                   last.task.type, FALSE))
                 /\ \A k2 \in Keys \ {k} : psm'[k2] = psm[k2] /\ log'[k2] = log[k2]
                 /\ reps' = reps]_vars

\* C19 witness: an instance is being resumed with a state that is neither ACK
\* nor NACK, taken as NACK, while another instance exists.
C19_Witness ==
    \E p \in Procs :
        /\ call[p].op = "resume" /\ call[p].state = "OK" /\ ~call[p].ack
        /\ \E k2 \in Keys \ {call[p].key} : psm[k2] # <<>>

(***************************************************************************)
(* The outcome of a finished instance.                                     *)
(***************************************************************************)
\* the record of key k has ended in ReadyACK or ReadyNACK
Finished(k) == psm[k] # <<>> /\ LastState(psm[k]).sub \ Archiving \in {ReadyACK, ReadyNACK}

\* C20: ReadyACK and ReadyNACK are absorbing: once the last entry of a key is
\* one of them no operation changes the outcome; the only entry that can still be
\* added is the last one overlaid with Archiving, by Release, and Status reports
\* the same OK or NACK before and after it.
C20_ReadyIsAbsorbing ==
    [][\A k \in Keys :
          Finished(k) =>
             LET last == LastState(psm[k]) IN
             /\ LastState(psm'[k]).sub \ Archiving = last.sub \ Archiving
             /\ calcProtocolState(psm'[k]) = calcProtocolState(psm[k])
             /\ calcProtocolState(psm[k]) = (IF ACK \subseteq last.sub THEN "OK" ELSE "NACK")
             /\ psm'[k] # psm[k] =>
                   /\ psm'[k] = Append(psm[k], [last EXCEPT !.sub = @ \cup Archiving])
                   /\ out' = Result("release", k, "nil", "ok")]_vars

\* C20 witness: an instance that ended in ReadyNACK was released and further
\* messages for it were refused.
C20_Witness ==
    \E k \in Keys :
        /\ Len(psm[k]) >= 2
        /\ LastState(psm[k]).sub = ReadyNACK \cup Archiving
        /\ psm[k][Len(psm[k]) - 1].sub = ReadyNACK
        /\ out = Result("exec", k, "ProtocolClosed", "ProtocolClosed")

(***************************************************************************)
(* Properties of Run.                                                      *)
(***************************************************************************)
\* the terminal status events Run took from the listener of all states
TerminalTaken ==
    SelectSeq(taken, LAMBDA e : e[1] = "status"
                                  /\ e[2] \in {ReadyACK, ACK, ReadyNACK, NACK, Failure})

\* the Waiting events Run took from the listener of user actions
WaitingTaken == SelectSeq(taken, LAMBDA e : e = <<"useraction", Waiting>>)

\* the protocol state that stands for a terminal status
CodeOf(status) ==
    IF status \in {ReadyACK, ACK} THEN "OK"
    ELSE IF status \in {ReadyNACK, NACK} THEN "NACK" ELSE "ERR"

\* the Send calls of seq that carry a final state
Finals(seq) == SelectSeq(seq, LAMBDA c : c.msg.state \in {"OK", "NACK", "ERR"})

\* the Send calls of seq that report a pending user action of the Run's task
WaitActions(seq) == SelectSeq(seq, LAMBDA c : c.msg = ProtocolState(runtask, "WAIT_ACTION", ""))

\* the messages that reached the stream
Streamed == SelectSeq(stream, LAMBDA c : c.ok)

\* C16 as the specification states it: when Run has ended, its stream holds
\* exactly one final state, it is the last message, and it matches the first
\* terminal event Run received for the key.
C16_FinalMatchesTerminalEvent ==
    runpc = "done" =>
       /\ Len(Finals(Streamed)) = 1
       /\ Streamed[Len(Streamed)] = Finals(Streamed)[1]
       /\ TerminalTaken # <<>>
       /\ Finals(Streamed)[1].msg = ProtocolState(runtask, CodeOf(TerminalTaken[1][2]), "")

\* C16 amended: while Run is in its loop it has received no terminal event and
\* has sent no final state.  When Run returns nil it received exactly one
\* terminal event, as its last event, removed its listeners, and the last
\* message of the stream is the one final state: OK for ReadyACK or ACK, NACK
\* for ReadyNACK or NACK, ERR for Failure.  When Run returns an error (token,
\* agent, task, or a failed Send) its last Send call is one ERR state with the
\* error as info and no protocol id, whatever events it received; after a failed
\* Send that is a second call following the one that failed.
C16_FinalStateOfRun ==
    /\ runpc # "done" =>
          /\ TerminalTaken = <<>>
          /\ Finals(stream) = <<>>
    /\ (runpc = "done" /\ runerr = "nil") =>
          /\ Len(TerminalTaken) = 1
          /\ taken[Len(taken)] = TerminalTaken[1]
          /\ ~listening
          /\ stream = Streamed
          /\ Len(Finals(stream)) = 1
          /\ stream[Len(stream)]
                = SendCall(ProtocolState(runtask, CodeOf(TerminalTaken[1][2]), ""), TRUE)
    /\ (runpc = "done" /\ runerr # "nil") =>
          /\ stream[Len(stream)].msg = ProtocolState("", "ERR", runerr)
          /\ IF runerr \in RunErrors
             THEN Len(stream) = 1 /\ taken = <<>> /\ ~listening
             ELSE /\ Len(stream) >= 2
                  /\ ~stream[Len(stream) - 1].ok
                  /\ \A i \in 1..(Len(stream) - 2) : stream[i].ok
                  /\ Len(Finals(stream)) \in {1, 2}
                  /\ Len(TerminalTaken) <= 1

\* C16 witness: Run reported a pending user action, took a status that is not
\* terminal, and ended its stream with NACK for a ReadyNACK event.
C16_Witness ==
    /\ runpc = "done" /\ runerr = "nil"
    /\ Len(stream) >= 2
    /\ stream[Len(stream)] = SendCall(ProtocolState(runtask, "NACK", ""), TRUE)
    /\ \E i \in 1..Len(taken) : taken[i] = <<"status", Waiting>>
    /\ taken[Len(taken)] = <<"status", ReadyNACK>>

\* C17 as the specification states it: for every Waiting event the user-action
\* listener got while the stream was open, a WAIT_ACTION state with the task's id
\* was sent on the stream before the final state.
C17_WaitActionForEveryPending ==
    runpc = "done" => Len(WaitActions(Streamed)) = offered

\* C17 amended: for every Waiting event Run takes from the user-action listener
\* it calls Send with a WAIT_ACTION state carrying the task's id, before any
\* final state; if that Send fails Run ends with the ERR state of its error
\* handler.  A Waiting event still in the listener's channel when Run takes a
\* terminal status event is not reported.
C17_WaitActionForEveryTaken ==
    /\ Len(WaitActions(stream)) = Len(WaitingTaken)
    /\ Len(WaitingTaken) <= offered
    /\ \A i \in 1..Len(stream) :
          stream[i].msg.state = "WAIT_ACTION" =>
             /\ stream[i].msg = ProtocolState(runtask, "WAIT_ACTION", "")
             /\ \A j \in 1..(i - 1) : stream[j] = SendCall(stream[i].msg, TRUE)
             /\ ~stream[i].ok =>
                   /\ Len(stream) = i + 1
                   /\ stream[i + 1].msg = ProtocolState("", "ERR", "send")
                   /\ runpc = "done" /\ runerr = "send"

\* C17 witness: two user actions became pending in turn, Run reported both and
\* then ended the stream with OK.
C17_Witness ==
    /\ runpc = "done" /\ runerr = "nil"
    /\ Len(WaitActions(Streamed)) = 2
    /\ offered = 2
    /\ stream[Len(stream)].msg.state = "OK"

(***************************************************************************)
(* The two indexes of the pairwise map.                                    *)
(***************************************************************************)
\* every name of the by-name index leads to the pipe the by-DID index holds for
\* the DID of the pipe's In side
NamesAgree == \A n \in PwNames : pwNames[n] # NoPipe => pws[pwNames[n].In] = pwNames[n]

\* every pipe of the by-DID index stands under at least one name
PipesNamed == \A d \in MyDIDs : pws[d] # NoPipe => \E n \in PwNames : pwNames[n] = pws[d]

\* C36: after any sequence of loadPWMap, AddToPWMap and AddPipeToPWMap the two
\* indexes are consistent: for every name n of by-name, by-DID maps the DID of
\* that pipe's In side to the same pipe, and every pipe of by-DID is reachable
\* under at least one name.
C36_IndexesConsistent ==
    NamesAgree /\ PipesNamed

\* C36 witness: the pipe of d1 was added under alice, then the pipe of d2 was
\* added under alice too; the calls have returned and the pipe of d1 is in the
\* by-DID index under no name.
C36_Witness ==
    /\ pwLock = NoHolder
    /\ pws["d1"] = Pipe("d1", "y1") /\ pws["d2"] = Pipe("d2", "y2")
    /\ pwNames["alice"] = Pipe("d2", "y2")
    /\ pwNames["bob"] = NoPipe

(***************************************************************************)
(* The SA implementation of a CA and of its worker, and the dispatch.      *)
(***************************************************************************)
\* C37: after AttachSAImpl(implID, persistent) on a CA has returned, the CA and
\* its worker EA have the same SA implementation id, for persistent false and
\* true, including when storing the endpoint fails.
C37_SameImplID ==
    [][(\E implID \in ImplIDs, persistent, ok \in BOOLEAN : AttachSAImpl(implID, persistent, ok))
          => agent'.waSAImplID = agent'.SAImplID]_vars

\* C37 witness: a persistent AttachSAImpl of the permissive SA could not store
\* the endpoint: the CA has the id and the endpoint, its worker has no id.
C37_Witness ==
    /\ agent.SAImplID = PermissiveSA
    /\ agent.waSAImplID = ""
    /\ agent.EAEndp = ImplEndp(PermissiveSA)
    /\ agent.meta = "pairwise"

\* the agents the CA can be: every id, endpoint, metadata and worker id
AgentConfigs ==
    [SAImplID : ImplIDs, EAEndp : {NoEndp, EAEndpoint}, meta : {"pairwise", "", EAEndpoint},
     waSAImplID : ImplIDs]

\* C38: the SA dispatch has one precedence: for every configuration callableEA
\* returns the impl-id call type, an empty impl id being replaced by the gRPC
\* SA id, so a CallEA never takes the legacy endpoint branch nor the default
\* branch, and a second CallEA dispatches to the same implementation as the
\* first.
C38_OneDispatch ==
    /\ [](\A a \in AgentConfigs \cup {agent} :
            /\ callableEA(a).ct = callTypeImplID
            /\ callableEA(a).agent.SAImplID = IF a.SAImplID = "" THEN GRPCSA ELSE a.SAImplID
            /\ callableEA(callableEA(a).agent).agent.SAImplID = callableEA(a).agent.SAImplID)
    /\ [](sacall # NoSACall => (sacall.ct = callTypeImplID /\ sacall.impl # ""))
    /\ [][sacall' # sacall =>
              /\ sacall'.impl = IF agent.SAImplID = "" THEN GRPCSA ELSE agent.SAImplID
              /\ agent'.SAImplID = sacall'.impl
              /\ (sacall # NoSACall /\ agent.SAImplID = sacall.impl)
                    => sacall'.impl = sacall.impl]_vars

\* C38 witness: the CA had no impl id but a legacy endpoint in its metadata; the
\* call went to the gRPC SA by impl id, and the CA now holds that id.
C38_Witness ==
    /\ sacall.ct = callTypeImplID /\ sacall.impl = GRPCSA
    /\ agent.SAImplID = GRPCSA /\ agent.waSAImplID = ""
    /\ agent.EAEndp = EAEndpoint /\ agent.meta = EAEndpoint

(***************************************************************************)
(* The representation of a protocol.                                       *)
(***************************************************************************)
\* the step is a StartPSM that ran Setup for key k and wrote the first entry
StartsKey(k) ==
    /\ psm[k] = <<>> /\ Len(psm'[k]) = 1
    /\ psm'[k][1].sub = Sending /\ psm'[k][1].role = "Initiator"
    /\ \E p \in Procs : pc[p] = "idle" /\ pc'[p] = "start_send" /\ call'[p].key = k

\* C39: a representation is created only by a starter and for the same key as
\* the PSM record: after a successful start a representation exists for
\* (workerDID, nonce), and a StartPSM that fails as DuplicateProtocol does not
\* replace or change the representation already stored for that key.
C39_RepByStarter ==
    /\ [](\A k \in Keys :
            /\ reps[k] # NoRep => (reps[k].key = k /\ psm[k] # <<>>)
            /\ (psm[k] # <<>> /\ psm[k][1].role = "Initiator") => reps[k] # NoRep)
    /\ [][\A k \in Keys :
            /\ (reps[k] = NoRep /\ reps'[k] # NoRep) => StartsKey(k)
            /\ StartsKey(k) => (reps'[k] # NoRep /\ reps'[k].key = k
                                 /\ reps'[k].type = psm'[k][1].task.type)
            /\ (pc' = pc /\ out'.op = "start" /\ out'.key = k /\ out'.err = "DuplicateProtocol")
                  => reps'[k] = reps[k]]_vars

\* C39 witness: the holder started n1 and its handler kept the issuer's offer
\* in the representation; a second start of n1 was refused as a duplicate and
\* the representation is the one of the first start, with the offer.
C39_Witness ==
    LET k == NewStateKey(WorkerDID, "n1") IN
    /\ out.op = "start" /\ out.key = k /\ out.err = "DuplicateProtocol"
    /\ reps[k] = IssueCredRep(k, "CACredRequest", TRUE)
    /\ Len(psm[k]) >= 3

(***************************************************************************)
(* The life of a Run call: its end and its listeners.                      *)
(***************************************************************************)
\* C33: every Run call eventually sends a final state and returns: once the
\* instance has posted a terminal sub state, and also when the start of the
\* task failed (duplicate key, setup error, unsupported task type), Run leaves
\* its loop instead of waiting forever.
C33_RunEnds ==
    (runpc = "loop" /\ (ended \/ started \in StartOutcomes \ {"ok"})) ~> (runpc = "done")

\* C33 witness: the start of the task failed as a duplicate, nothing was posted
\* and nothing was sent, and Run waits in its select.
C33_Witness ==
    /\ runpc = "loop" /\ started = "DuplicateProtocol"
    /\ statusChan = <<>> /\ userActionChan = <<>>
    /\ stream = <<>> /\ events = 0

\* C34: after Run has returned, on the normal path and on every error path, the
\* status listener and the user-action listener it added are registered no more.
C34_ListenersRemoved ==
    runpc = "done" => ~listening

\* C34 witness: the Send of WAIT_ACTION failed, Run returned through its error
\* handler, and its listeners are still registered.
C34_Witness ==
    /\ runpc = "done" /\ runerr = "send" /\ listening
    /\ Len(stream) = 2
    /\ stream[1] = SendCall(WaitAction(runtask), FALSE)

\* C35: Run has added its listeners when it starts the task, before any event
\* of the instance, and every sub state the started instance posts while Run
\* is in its loop, from the first on, is posted while the listeners exist.
C35_ListenBeforeStart ==
    [][/\ started' # started => (listening /\ events = 0 /\ taken = <<>>)
       /\ events' # events => (listening /\ started = "ok")]_vars

\* C35 witness: the first event of the started instance, Sending, was posted to
\* the registered listeners and Run has taken it from its status channel.
C35_Witness ==
    /\ started = "ok" /\ listening
    /\ events >= 1
    /\ taken # <<>> /\ taken[1] = <<"status", Sending>>

(***************************************************************************)
(* The record as a log.                                                    *)
(***************************************************************************)
\* C21: a PSM record is append-only: every step leaves the entries already
\* written for a key at their positions with their sub states and can only add
\* entries after them; the last entry is the current state, the one Status
\* reports and Resume continues from.
C21_AppendOnly ==
    [][/\ \A k \in Keys :
             /\ Len(psm'[k]) >= Len(psm[k])
             /\ SubSeq(psm'[k], 1, Len(psm[k])) = psm[k]
       /\ \A k \in Keys :
             (out' # out /\ out'.op = "status" /\ out'.key = k /\ psm[k] # <<>>) =>
                out'.rpc = calcProtocolState(<<LastState(psm[k])>>)
       /\ \A p \in Procs :
             (pc[p] = "idle" /\ pc'[p] = "exec_send" /\ call'[p].op = "resume") =>
                call'[p].typ = LastState(psm[call'[p].key]).task.type]_vars

\* C21 witness: a record that was started, answered and then released: the
\* Archiving overlay is a further entry after the terminal one.
C21_Witness ==
    \E k \in Keys :
        /\ Len(psm[k]) >= 5
        /\ psm[k][1].sub = Sending /\ psm[k][2].sub = Waiting
        /\ psm[k][Len(psm[k]) - 1].sub \cap Archiving = {}
        /\ Archiving \subseteq LastState(psm[k]).sub
        /\ out = Result("release", k, "nil", "ok")

\* the events of kind ev among the first n events of history l
Count(l, n, ev) == Cardinality({i \in 1..n : l[i].ev = ev})

\* C29: a bus event for a key is emitted only after the entry it reports is
\* persisted: the n-th bus event of a key reports the sub state of the n-th
\* entry of its record, and at every point of the key's history no more events
\* were posted than entries persisted.
C29_PersistBeforeBus ==
    \A k \in Keys :
        /\ Count(log[k], Len(log[k]), "persist") = Len(psm[k])
        /\ \A i \in 1..Len(log[k]) :
              log[k][i].ev = "bus" =>
                 LET n == Count(log[k], i, "bus") IN
                 /\ n <= Count(log[k], i, "persist")
                 /\ n <= Len(psm[k])
                 /\ psm[k][n].sub = log[k][i].what
                 /\ log[k][i - 1] = Event("persist", log[k][i].op, log[k][i].what)

\* C29 witness: the events of a failed send were posted, Sending and then
\* Failure, each after its entry.
C29_Witness ==
    \E k \in Keys :
        /\ Subs(psm[k]) = <<Sending, Failure>>
        /\ Kinds(SelectSeq(log[k], LAMBDA e : e.ev = "bus"))
              = <<<<"bus", Sending>>, <<"bus", Failure>>>>

\* a record the holder started with a credential request
HolderRun(k) ==
    /\ psm[k] # <<>>
    /\ psm[k][1].role = "Initiator"
    /\ psm[k][1].task.type = "CACredRequest"

\* no entry of the record waits for the user, failed, was rejected or is archived
AutoAccepted(k) ==
    \A i \in 1..Len(psm[k]) :
        /\ ~psm[k][i].pending
        /\ psm[k][i].sub \cap (Failure \cup NACK \cup Archiving) = {}

HolderSubs == <<Sending, Waiting, Sending, Waiting, Sending, ReadyACK>>

\* C28: a holder-started issue-credential run (CACredRequest) with an
\* auto-accepting SA persists Sending, Waiting(IssueCredentialOffer), Sending,
\* Waiting(IssueCredentialIssue), Sending, ReadyACK in this order and nothing
\* else, and the status reported for the finished run carries the cred-def-id
\* and the attributes of the started task.
C28_HolderRun ==
    \A k \in Keys :
        HolderRun(k) =>
           /\ AutoAccepted(k) =>
                 /\ Len(psm[k]) <= Len(HolderSubs)
                 /\ Subs(psm[k]) = SubSeq(HolderSubs, 1, Len(psm[k]))
                 /\ Len(psm[k]) >= 2 => psm[k][2].tag = "IssueCredentialOffer"
                 /\ Len(psm[k]) >= 4 => psm[k][4].tag = "IssueCredentialIssue"
                 /\ LastState(psm[k]).sub = ReadyACK => Len(psm[k]) = Len(HolderSubs)
           /\ (out.op = "status" /\ out.key = k /\ out.rpc = "OK") =>
                 /\ out.detail.kind = "issue-credential"
                 /\ out.detail.CredDefID = CredTask(k[2]).CredDefID
                 /\ out.detail.Attributes = CredTask(k[2]).CredentialAttrs

\* C28 witness: the six entries of a finished holder run and its status.
C28_Witness ==
    \E k \in Keys :
        /\ HolderRun(k) /\ AutoAccepted(k)
        /\ Subs(psm[k]) = HolderSubs
        /\ out.op = "status" /\ out.key = k /\ out.rpc = "OK"
        /\ out.detail.CredDefID = "cd:1" /\ out.detail.Attributes = <<"email">>

(***************************************************************************)
(* The permissive SA.                                                      *)
(***************************************************************************)
Questions == {"SAPing", "SAIssueCredentialAcceptPropose",
              "SAPresentProofAcceptPropose", "SAPresentProofAcceptValues"}

\* the last callback went to the permissive SA with one of the four questions
PermissiveCall ==
    /\ sacall.plType \in Questions
    /\ sacall.ct = callTypeImplID
    /\ sacall.impl = PermissiveSA

\* C25 as the spec has it: the outbound message is the inbound message with
\* ready set and nothing else changed, and there is no error.
C25_Original ==
    PermissiveCall =>
       /\ sacall.om = [sacall.im EXCEPT !.ready = TRUE]
       /\ sacall.err = "nil" /\ ~sacall.failed

\* C25: the permissive SA accepts each of the four questions: the callback
\* returns no error and the inbound message as the outbound with ready=true,
\* where the answer to SAPing also has the info "SA ping OK" and the answer to
\* SAPresentProofAcceptPropose also has the proof request as its sub-message.
C25_AutoAccept ==
    PermissiveCall =>
       /\ sacall.om = [sacall.im EXCEPT
                          !.ready = TRUE,
                          !.info = IF sacall.plType = "SAPing" THEN "SA ping OK" ELSE @,
                          !.sub = IF sacall.plType = "SAPresentProofAcceptPropose"
                                  THEN "FirstProofReq" ELSE @]
       /\ sacall.err = "nil" /\ ~sacall.failed

\* C25 witness: the permissive SA accepted a proof proposal that came in not ready.
C25_Witness ==
    /\ PermissiveCall
    /\ sacall.plType = "SAPresentProofAcceptPropose"
    /\ ~sacall.im.ready /\ sacall.om.ready

\* C26: with the implementation "permissive_sa" an SAPing callback with any
\* info returns ready=true and the info "SA ping OK" without an error, and the
\* call leaves every PSM record, representation and history as it was.
C26_Ping ==
    [][sacall' # sacall =>
          /\ psm' = psm /\ reps' = reps /\ log' = log
          /\ (sacall'.plType = "SAPing" /\ sacall'.impl = PermissiveSA) =>
                 /\ sacall'.om.ready
                 /\ sacall'.om.info = "SA ping OK"
                 /\ sacall'.err = "nil"]_vars

\* C26 witness: a ping with the info "hello" was answered and there is no PSM.
C26_Witness ==
    /\ sacall.plType = "SAPing" /\ sacall.impl = PermissiveSA
    /\ sacall.im.info = "hello" /\ sacall.om.info = "SA ping OK" /\ sacall.om.ready
    /\ \A k \in Keys : psm[k] = <<>>

(***************************************************************************)
(* The pairwise maps.                                                      *)
(***************************************************************************)
\* the step in which task t, in AddToPWMap, writes the maps
AddsPairwise(t) ==
    /\ pwpc[t] = "locked" /\ pwpc'[t] = "done"
    /\ pwcall[t].op = "AddToPWMap"

\* the DID of the call is mapped, under another name than the call's
ConflictingLabel(c) ==
    /\ pws[c.me] # NoPipe
    /\ pwNames[c.name] # pws[c.me]
    /\ \E n \in PwNames \ {c.name} : pwNames[n] = pws[c.me]

\* C22: AddToPWMap with a triple that is in the map leaves the map unchanged,
\* and AddToPWMap with another label for a DID that is mapped is an error and
\* leaves the map unchanged.
C22_AddToPWMap ==
    [][\A t \in PwTasks :
          AddsPairwise(t) =>
             LET c == pwcall[t] IN
             /\ (pws[c.me] = Pipe(c.me, c.you) /\ pwNames[c.name] = Pipe(c.me, c.you)) =>
                   (pws' = pws /\ pwNames' = pwNames /\ pwcall'[t].err = "nil")
             /\ ConflictingLabel(c) =>
                   (pws' = pws /\ pwNames' = pwNames /\ pwcall'[t].err # "nil")]_vars

\* C22 witness: after AddToPWMap(d1, y1, alice) and AddToPWMap(d1, y1, bob)
\* the DID's pipe is in the map under both names.
C22_Witness ==
    /\ pws["d1"] = Pipe("d1", "y1")
    /\ pwNames["alice"] = Pipe("d1", "y1")
    /\ pwNames["bob"] = Pipe("d1", "y1")
    /\ \E t \in PwTasks : pwpc[t] = "done" /\ pwcall[t].op = "AddToPWMap"
                             /\ pwcall[t].name = "bob" /\ pwcall[t].err = "nil"

\* task t is between Lock and Unlock of the pairwise lock
InSection(t) == pwpc[t] \in {"locked", "done"}

\* C23: the pairwise maps are read and written only under the agent's pairwise
\* lock: a task that is in the body of PwPipe, SecPipe, AddToPWMap,
\* AddPipeToPWMap or loadPWMap holds the lock, no two tasks are in a body at
\* the same time, the maps change only in a step of the lock's holder, and a
\* task that returns, with or without an error, leaves the lock free.
C23_PairwiseLock ==
    /\ [](/\ \A t \in PwTasks : InSection(t) => pwLock = t
          /\ \A t, u \in PwTasks : (InSection(t) /\ InSection(u)) => t = u
          /\ (\A t \in PwTasks : ~InSection(t)) => pwLock = NoHolder)
    /\ [][/\ (pws' # pws \/ pwNames' # pwNames) =>
                \E t \in PwTasks : pwLock = t /\ pwpc[t] = "locked" /\ pwpc'[t] = "done"
          /\ \A t \in PwTasks :
                (pwcall'[t].res # pwcall[t].res /\ pwcall'[t].res # NoPipe) => pwLock = t
          /\ \A t \in PwTasks :
                (InSection(t) /\ pwpc'[t] = "idle") => pwLock' = NoHolder]_vars

\* C23 witness: PwPipe found no pairwise for the name and is about to return its
\* error, holding the lock, while the map has a pipe that another task added.
C23_Witness ==
    \E t \in PwTasks :
        /\ pwpc[t] = "done" /\ pwLock = t
        /\ pwcall[t].op = "PwPipe" /\ pwcall[t].err = "cannot find pw"
        /\ pws["d1"] = Pipe("d1", "y1") /\ pwNames["alice"] = Pipe("d1", "y1")
        /\ \A u \in PwTasks \ {t} : pwpc[u] = "idle"

(***************************************************************************)
(* The worker EA.                                                          *)
(***************************************************************************)
\* C24: a CA has one worker EA: every WEA call returns the same worker agent,
\* the worker is created once and registered in the active receivers once,
\* and it is registered under the one worker DID of the CA.
C24_OneWorker ==
    /\ Cardinality(returned) <= 1
    /\ created <= 1
    /\ Len(rcvrs) <= 1
    /\ \A i \in 1..Len(rcvrs) : rcvrs[i].did = RcvrDID

\* C24 witness: two tasks called WEA before the CA had a worker: two worker
\* agents were created and registered, and the calls returned different ones.
C24_Witness ==
    /\ created = 2
    /\ Len(rcvrs) = 2 /\ rcvrs[1].agent # rcvrs[2].agent
    /\ Cardinality(returned) = 2

C27_Registry ==
    [][/\ (regcall'.op = "register" /\ regcall' # regcall) =>
             /\ registry' = registry
             /\ regcall'.err = (IF regcall'.entry \in registry THEN "nil"
                                ELSE "DuplicateRegistration")
       /\ regpc' # regpc =>
             /\ regcall'.err = "nil"
             /\ regcall'.entry \notin registry
             /\ registry' = registry \cup {regcall'.entry}
       /\ sealed => (registry' = registry /\ sealed')]_vars

\* C27 witness: both families are registered and a registration of the issuing
\* family's starter with the other processor was refused.
C27_Witness ==
    /\ ~sealed
    /\ Cardinality(registry) = Len(presentProofInit) + Len(issueCredentialInit)
    /\ regcall = RegCall("register", Entry("starter", "CACredOffer", "presentProofProcessor"),
                         "DuplicateRegistration")

(***************************************************************************)
(* The nonce of a started protocol.                                        *)
(***************************************************************************)
\* C30: the task of a Connect protocol started from an invitation has the
\* invitation's id as its nonce, so the key of its PSM is (workerDID,
\* invitation id); the task of any other protocol has the id the generator
\* made for it, which no task before it has.
C30_Nonce ==
    [][(uuids' # uuids /\ made'.err = "nil") =>
          IF made'.protocol.TypeId = "CONNECT"
          THEN /\ made'.task.Nonce = made'.protocol.attr
               /\ made'.task.Nonce \in InvitationIds
               /\ made'.key = <<WorkerDID, made'.protocol.attr>>
          ELSE /\ made'.task.Nonce = UUID(uuids')
               /\ made'.task.Nonce \notin nonces
               /\ made'.task.Nonce \notin InvitationIds
               /\ made'.key = <<WorkerDID, made'.task.Nonce>>]_vars

\* C30 witness: a proof was started with a generated nonce and then a
\* connection with the id of its invitation.
C30_Witness ==
    /\ made.protocol.TypeId = "CONNECT" /\ made.err = "nil"
    /\ made.key = <<WorkerDID, "inv-1">>
    /\ nonces = {UUID(1), "inv-1"}

(***************************************************************************)
(* Messages for unknown threads.                                           *)
(***************************************************************************)
\* key k has a PSM that has not ended
Active(k) == psm[k] # <<>> /\ ~IsTerminal(LastState(psm[k]).sub)

\* C31: an inbound protocol message whose thread-id is the nonce of no active
\* PSM of the worker is rejected: no task applies it, it creates no record and
\* it changes no record.
C31_UnknownThreadRejected ==
    [][\A k \in Keys :
          /\ \A p \in Procs :
                (pc[p] = "idle" /\ pc'[p] = "exec_inout" /\ call'[p].key = k) => Active(k)
          /\ (ExecRefused(k) /\ ~Active(k)) =>
                (psm' = psm /\ reps' = reps /\ log' = log /\ out'.err # "nil")
          /\ \A p \in Procs :
                (pc[p] = "idle" /\ call'[p].op = "exec" /\ call'[p].key = k /\ ~Active(k))
                   => psm' = psm]_vars

\* C31 witness: a proof ACK with a thread-id no PSM had made a record that
\* ended in ReadyACK.
C31_Witness ==
    \E k \in Keys :
        /\ Len(psm[k]) = 2
        /\ psm[k][1].role = "Addressee" /\ psm[k][1].tag = "PresentProofACK"
        /\ Subs(psm[k]) = <<Sending, ReadyACK>>
        /\ out = Result("exec", k, "nil", "ok")

(***************************************************************************)
(* Thread-ids.                                                             *)
(***************************************************************************)
\* the messages handed to the pipe for key k, sent or failed
Outbound(k) == SelectSeq(log[k], LAMBDA e : e.ev \in {"send", "senderr"})

\* C15: the thread-id of every outbound message built for an instance and of
\* every inbound message applied to it equals the nonce of the instance's key,
\* and so does the id of the task stored in each of its entries: the key is
\* derived from the message's thread-id by handlers and continuators and from
\* the task's id by starters.
C15_ThreadIdIsNonce ==
    /\ \A k \in Keys :
          /\ \A i \in 1..Len(psm[k]) : psm[k][i].task.id = k[2]
          /\ \A i \in 1..Len(Outbound(k)) : Outbound(k)[i].thid = k[2]
    /\ \A p \in Procs : call[p].op # "none" => call[p].thid = call[p].key[2]

\* C15 witness: a starter's message went out on one thread while an inbound
\* message was applied on another, each under its own key.
C15_Witness ==
    \E k1, k2 \in Keys :
        /\ k1 # k2
        /\ psm[k1] # <<>> /\ psm[k1][1].role = "Initiator"
        /\ \E i \in 1..Len(Outbound(k1)) : Outbound(k1)[i].ev = "send"
        /\ psm[k2] # <<>> /\ psm[k2][1].role = "Addressee"
        /\ LastState(psm[k2]).sub = ReadyACK

(***************************************************************************)
(* Properties of the service-agent callback.                               *)
(***************************************************************************)
NACKOf(im) == CallResult([im EXCEPT !.ready = FALSE], "nil")

\* C4: a failure of the service-agent callback never aborts the protocol: when the
\* call of the SA fails (an error, or a ConnectionError payload of the endpoint),
\* CallEA returns no error and the inbound message with ready = false; this holds
\* of every call made and of every branch of the dispatch.
C4_CallbackFailureIsNACK ==
    /\ sacall.failed => (sacall.err = "nil" /\ sacall.om = [sacall.im EXCEPT !.ready = FALSE])
    /\ sacall.err = "nil"
    /\ \A ct \in CallTypes, plType \in PlTypes, im \in Msgs, o \in SAOutcomes :
          LET d == Dispatch(ct, agent, plType, im, o) IN
          /\ d.err # "nil" => Handle(d, im) = NACKOf(im)
          /\ (ct = callTypeEndp /\ o \in {"error", "ConnectionError"}) => d.err # "nil"

\* C4 witness: the SA failed on a message that came in ready, in a call on an
\* agent with a stored endpoint.
C4_Witness ==
    /\ sacall.failed
    /\ sacall.im.ready
    /\ ~sacall.om.ready
    /\ sacall.o = "ConnectionError"
    /\ agent.EAEndp # NoEndp

(***************************************************************************)
(* Properties of the question/answer bus.                                  *)
(***************************************************************************)
\* the answers delivered on answer channel c: received or still on the channel
Delivered(c) == got[c] \o answerCh[c]

\* q was posted to the answerer that is registered for its key
Posted(q) == station[KeyOf(q)].on /\ q \in station[KeyOf(q)].posted

Heard(q) == \E i \in 1..Len(heard[KeyOf(q)]) : heard[KeyOf(q)][i] = q

\* C5: at most one answer is delivered on the answer channel of a question: the
\* first answer with the question's id; an answer sent when no question waits
\* with its id is discarded, it reaches no channel and no waiter.
C5_AtMostOneAnswer ==
    /\ [](\A c \in Chans : Len(Delivered(c)) <= 1)
    /\ [][\A id \in QIds :
            (told'[id] = told[id] + 1 /\ WaitersOf(id) = <<>>)
               => (answerCh' = answerCh /\ got' = got /\ waiting' = waiting)]_vars

\* C5 witness: a second answer was sent with the id of a question whose waiter
\* has received its one answer.
C5_Witness ==
    \E c \in Chans :
        /\ Len(got[c]) = 1
        /\ told[got[c][1].ID] >= 2
        /\ asked[c].ID = got[c][1].ID

\* C6: answers are correlated to questions by the question id alone: every answer
\* delivered on the answer channel of a question carries that question's id, in
\* whatever order the answers are sent.
C6_CorrelatedById ==
    \A c \in Chans : \A i \in 1..Len(Delivered(c)) :
        c <= Len(asked) /\ Delivered(c)[i].ID = asked[c].ID

\* C6 witness: two questions of one agent key waited together, the second was
\* answered first, and each waiter has its own answer.
C6_Witness ==
    /\ Len(asked) = 2
    /\ KeyOf(asked[1]) = KeyOf(asked[2])
    /\ Len(got[2]) = 1 /\ got[2][1].ID = asked[2].ID
    /\ answerCh[1] # <<>> /\ answerCh[1][1].ID = asked[1].ID

====
